---- MODULE Spec2Model ----
(***************************************************************************)
(* Funding_Trader: the OCO monitor (trade_binance.py, _watch_and_cancel),  *)
(* the order placement (trade_binance.py, place_order), the scheduler loop *)
(* (main.py, main) and the exchange-info cache (funding_rate_scanner.py).  *)
(*                                                                         *)
(* The specifications share the variables:                                 *)
(*   SpecOCO    direct invocations of _watch_and_cancel against an         *)
(*              exchange whose orders fill, expire and get cancelled;      *)
(*   SpecMain   the main loop with safe_scan, the per-candidate steps and  *)
(*              place_order, under a wall clock and a KeyboardInterrupt;   *)
(*   SpecCache  _get_perpetual_symbols / _get_intervals calls over         *)
(*              _refresh_exchange_info_if_needed;                          *)
(*   SpecRetry  one _request_with_retries call, attempt by attempt;        *)
(*   SpecScan   one scan() on behalf of safe_scan, get_upcoming_pairs or   *)
(*              get_recent_pairs, and the start of the pass built on it;   *)
(*   SpecOrder  one place_order call with the arithmetic of its quantity   *)
(*              and prices and the polling of its entry price.             *)
(*   SpecOCOLive  SpecOCO with the fairness of a running monitor thread    *)
(*              and of an exchange that eventually answers;                *)
(*   SpecFleet  two bound monitors running beside the main thread while    *)
(*              it sleeps or is inside place_order.                        *)
(***************************************************************************)
EXTENDS Integers, Sequences, FiniteSets, TLC

VARIABLES
    \* ---- exchange and OCO monitors (trade_binance.py) ----
    orderStatus,    \* exchange side: order id -> "NEW" | "FILLED" | "CANCELED" | "EXPIRED"
    mon,            \* monitor -> locals of one _watch_and_cancel invocation
    cancelLog,      \* futures_cancel_order requests issued, in order
    \* ---- main loop (main.py) and place_order (trade_binance.py) ----
    now,            \* wall clock, whole seconds
    pc,             \* position of main()
    wake,           \* time at which the current time.sleep() returns
    secs_until_hour,\* main.py:120
    passStarts,     \* hour boundary (absolute time) of each pass started
    all_filtered,   \* main.py:128, the candidates of the current pass
    idx,            \* position of the for loop of main.py:134 in all_filtered
    tick,           \* main.py:141
    po,             \* locals of the current place_order call
    poReq,          \* order requests the current place_order call got accepted
    failedCands,    \* candidates of the current pass whose handling failed
    topErrors,      \* times the handler of main.py:218 ran
    interrupted,    \* a KeyboardInterrupt was delivered
    handlersClosed, \* main.py:214-215 ran
    \* ---- exchange-info cache (funding_rate_scanner.py) ----
    cached_symbols, \* _cached_symbols: "None" or a set of symbols
    cached_intervals,\* _cached_intervals: "None" or a function symbol -> hours
    last_info_ts,   \* _last_info_ts
    calls,          \* number of symbols()/intervals() calls made
    lastCall,       \* what the last call did: requests issued, raised or not, value returned
    okAt,           \* time of the last refresh that ran to completion, -1 if none
    okSyms,         \* the symbol set that refresh cached
    \* ---- _request_with_retries (funding_rate_scanner.py) ----
    rq,             \* locals and history of one _request_with_retries call
    \* ---- scan and its callers (funding_rate_scanner.py, main.py) ----
    threshold,      \* self.threshold, in units of 0.0001
    sc              \* locals of the current scan() call and of its caller

ocoVars   == <<orderStatus, mon, cancelLog>>
mainVars  == <<now, pc, wake, secs_until_hour, passStarts, all_filtered, idx, tick,
               po, poReq, failedCands, topErrors, interrupted, handlersClosed>>
cacheVars == <<cached_symbols, cached_intervals, last_info_ts, calls, lastCall, okAt,
               okSyms>>
libVars   == <<rq, threshold, sc>>
vars      == <<ocoVars, mainVars, cacheVars, libVars>>

(***************************************************************************)
(* Bounds of the model.                                                    *)
(***************************************************************************)
NumOrders   == 2
NumSymbols  == 2
StartTs     == 3588
MaxTs       == 3603
MaxCalls    == 3

\* Two invocations of _watch_and_cancel run side by side.
Monitors == {"m1", "m2"}
Orders   == 1..NumOrders
Symbols  == 1..NumSymbols

(***************************************************************************)
(* The exchange, as _watch_and_cancel sees it.                             *)
(***************************************************************************)
\* sl_id = None / tp_id = None: a falsy order id.
NoId == 0

\* What a client call can answer: a result, or a BinanceAPIException whose
\* code is -2011 or something else.
ApiOutcomes == {"ok", "err_2011", "err_other"}

\* futures_get_order(...).get('status') under outcome out; the except
\* clause leaves the local at None for either error code.
GetOrderStatus(id, out) ==
    IF out = "ok" THEN orderStatus[id] ELSE "None"

\* The exchange's side of futures_cancel_order: a resting order is
\* cancelled, a resolved one answers -2011, any other error changes nothing.
CancelAnswerOk(id, res) ==
    CASE res = "ok"       -> orderStatus[id] = "NEW"
      [] res = "err_2011" -> orderStatus[id] # "NEW"
      [] OTHER            -> TRUE

\* A cancel request that cancels every resting order.
CancelEffectAll(id, res) ==
    IF res = "ok"
    THEN [o \in DOMAIN orderStatus |->
             IF orderStatus[o] = "NEW" THEN "CANCELED" ELSE orderStatus[o]]
    ELSE orderStatus

CancelEffect(id, res) ==
    IF res = "ok" THEN [orderStatus EXCEPT ![id] = "CANCELED"] ELSE orderStatus

ExchangeFill(o) ==
    /\ orderStatus[o] = "NEW"
    /\ orderStatus' = [orderStatus EXCEPT ![o] = "FILLED"]
    /\ UNCHANGED <<mon, cancelLog>>
    /\ UNCHANGED <<mainVars, cacheVars, libVars>>

ExchangeExpire(o) ==
    /\ orderStatus[o] = "NEW"
    /\ orderStatus' = [orderStatus EXCEPT ![o] = "EXPIRED"]
    /\ UNCHANGED <<mon, cancelLog>>
    /\ UNCHANGED <<mainVars, cacheVars, libVars>>

(***************************************************************************)
(* _watch_and_cancel(symbol, sl_id, tp_id), trade_binance.py:61-101.       *)
(***************************************************************************)
IdleMonitor ==
    [pc |-> "idle", sl_id |-> NoId, tp_id |-> NoId,
     sl_status |-> "None", tp_status |-> "None",
     sl_err |-> "none", tp_err |-> "none"]

\* A call of the method with the two ids it is to watch.
StartMonitor(m, sl, tp) ==
    /\ mon[m].pc = "idle"
    /\ sl # tp \/ sl = NoId
    /\ mon' = [mon EXCEPT ![m] = [IdleMonitor EXCEPT !.pc = "query_sl",
                                         !.sl_id = sl, !.tp_id = tp]]
    /\ UNCHANGED <<orderStatus, cancelLog>>
    /\ UNCHANGED <<mainVars, cacheVars, libVars>>

\* The exception a status query ended with in this pass of the loop:
\* "none", or the outcome the except clause caught.
QueryError(out) == IF out = "ok" THEN "none" ELSE out

\* A stop-loss query whose -2011 answer ends the monitor.
QuerySLFatal(m, out) ==
    /\ mon[m].pc = "query_sl"
    /\ mon[m].sl_id = NoId => out = "ok"
    /\ mon' = [mon EXCEPT ![m].pc = IF out = "err_2011" THEN "Done" ELSE "query_tp",
                          ![m].sl_err = QueryError(out),
                          ![m].sl_status =
                              IF mon[m].sl_id # NoId
                              THEN GetOrderStatus(mon[m].sl_id, out) ELSE "None"]
    /\ UNCHANGED <<orderStatus, cancelLog>>
    /\ UNCHANGED <<mainVars, cacheVars, libVars>>

\* Lines 68-74: the stop-loss status query.
QuerySL(m, out) ==
    /\ mon[m].pc = "query_sl"
    /\ mon[m].sl_id = NoId => out = "ok"
    /\ mon' = [mon EXCEPT ![m].pc = "query_tp",
                          ![m].sl_err = QueryError(out),
                          ![m].sl_status =
                              IF mon[m].sl_id # NoId
                              THEN GetOrderStatus(mon[m].sl_id, out) ELSE "None"]
    /\ UNCHANGED <<orderStatus, cancelLog>>
    /\ UNCHANGED <<mainVars, cacheVars, libVars>>

\* Lines 75-81: the take-profit status query.
QueryTP(m, out) ==
    /\ mon[m].pc = "query_tp"
    /\ mon[m].tp_id = NoId => out = "ok"
    /\ mon' = [mon EXCEPT ![m].pc = "decide",
                          ![m].tp_err = QueryError(out),
                          ![m].tp_status =
                              IF mon[m].tp_id # NoId
                              THEN GetOrderStatus(mon[m].tp_id, out) ELSE "None"]
    /\ UNCHANGED <<orderStatus, cancelLog>>
    /\ UNCHANGED <<mainVars, cacheVars, libVars>>

\* One futures_cancel_order request by monitor m; every answer, -2011 or
\* not, is swallowed by the except clause (lines 87-89, 96-98).
IssueCancel(m, id, res) ==
    /\ CancelAnswerOk(id, res)
    /\ orderStatus' = CancelEffect(id, res)
    /\ cancelLog' = Append(cancelLog, [mon |-> m, orderId |-> id, res |-> res])

\* The take-profit test comes first.
CancelTargetTPFirst(m) ==
    IF mon[m].tp_status = "FILLED" /\ mon[m].sl_id # NoId THEN mon[m].sl_id
    ELSE IF mon[m].sl_status = "FILLED" /\ mon[m].tp_id # NoId THEN mon[m].tp_id
    ELSE NoId

\* The filled leg itself is taken for the one to cancel.
CancelTargetSwapped(m) ==
    IF mon[m].sl_status = "FILLED" /\ mon[m].tp_id # NoId THEN mon[m].sl_id
    ELSE IF mon[m].tp_status = "FILLED" /\ mon[m].sl_id # NoId THEN mon[m].tp_id
    ELSE NoId

\* Lines 84 and 93: the leg to cancel, the stop-loss test first.
CancelTarget(m) ==
    IF mon[m].sl_status = "FILLED" /\ mon[m].tp_id # NoId THEN mon[m].tp_id
    ELSE IF mon[m].tp_status = "FILLED" /\ mon[m].sl_id # NoId THEN mon[m].sl_id
    ELSE NoId

\* The decision without the break of line 90: after cancelling the
\* take-profit the test of line 93 runs too, and the loop goes on.
DecideNoBreak(m, res) ==
    /\ mon[m].pc = "decide"
    /\ LET slWon == mon[m].sl_status = "FILLED" /\ mon[m].tp_id # NoId
           tpWon == mon[m].tp_status = "FILLED" /\ mon[m].sl_id # NoId
           req(id) == [mon |-> m, orderId |-> id, res |-> res]
       IN  IF slWon /\ tpWon
           THEN /\ res # "ok"
                /\ cancelLog' = cancelLog \o <<req(mon[m].tp_id), req(mon[m].sl_id)>>
                /\ mon' = [mon EXCEPT ![m].pc = "Done"]
                /\ UNCHANGED orderStatus
           ELSE IF slWon
           THEN /\ IssueCancel(m, mon[m].tp_id, res)
                /\ mon' = [mon EXCEPT ![m].pc = "sleep"]
           ELSE IF tpWon
           THEN /\ IssueCancel(m, mon[m].sl_id, res)
                /\ mon' = [mon EXCEPT ![m].pc = "Done"]
           ELSE /\ res = "ok"
                /\ mon' = [mon EXCEPT ![m].pc = "sleep"]
                /\ UNCHANGED <<orderStatus, cancelLog>>
    /\ UNCHANGED <<mainVars, cacheVars, libVars>>

\* Lines 83-101: cancel the other leg and break, or sleep one second.
Decide(m, res) ==
    /\ mon[m].pc = "decide"
    /\ IF CancelTarget(m) # NoId
       THEN /\ IssueCancel(m, CancelTarget(m), res)
            /\ mon' = [mon EXCEPT ![m].pc = "Done"]
       ELSE /\ res = "ok"
            /\ mon' = [mon EXCEPT ![m].pc = "sleep"]
            /\ UNCHANGED <<orderStatus, cancelLog>>
    /\ UNCHANGED <<mainVars, cacheVars, libVars>>

\* A monitor that gives up after a poll without a fill.
SleepDoneTimeout(m) ==
    /\ mon[m].pc = "sleep"
    /\ mon' = [mon EXCEPT ![m].pc = "Done"]
    /\ UNCHANGED <<orderStatus, cancelLog>>
    /\ UNCHANGED <<mainVars, cacheVars, libVars>>

\* time.sleep(1) returns and the while loop starts over with both
\* statuses reset (lines 101, 65-67).
SleepDone(m) ==
    /\ mon[m].pc = "sleep"
    /\ mon' = [mon EXCEPT ![m].pc = "query_sl",
                          ![m].sl_status = "None", ![m].tp_status = "None",
                          ![m].sl_err = "none", ![m].tp_err = "none"]
    /\ UNCHANGED <<orderStatus, cancelLog>>
    /\ UNCHANGED <<mainVars, cacheVars, libVars>>

InitOCO ==
    /\ orderStatus = [o \in Orders |-> "NEW"]
    /\ mon = [m \in Monitors |-> IdleMonitor]
    /\ cancelLog = <<>>

NextOCO ==
    \/ \E o \in Orders : ExchangeFill(o)
    \/ \E o \in Orders : ExchangeExpire(o)
    \/ \E m \in Monitors, sl, tp \in Orders \cup {NoId} : StartMonitor(m, sl, tp)
    \/ \E m \in Monitors, out \in ApiOutcomes : QuerySL(m, out)
    \/ \E m \in Monitors, out \in ApiOutcomes : QueryTP(m, out)
    \/ \E m \in Monitors, res \in ApiOutcomes : Decide(m, res)
    \/ \E m \in Monitors : SleepDone(m)

\* The steps of one monitor: its thread is scheduled again and again.
MonitorStep(m) ==
    \/ \E out \in ApiOutcomes : QuerySL(m, out)
    \/ \E out \in ApiOutcomes : QueryTP(m, out)
    \/ \E res \in ApiOutcomes : Decide(m, res)
    \/ SleepDone(m)

\* Every monitor thread keeps running, and a status query that is made
\* again and again is answered by the exchange again and again.
FairOCO ==
    \A m \in Monitors :
        /\ WF_vars(MonitorStep(m))
        /\ SF_vars(QuerySL(m, "ok"))
        /\ SF_vars(QueryTP(m, "ok"))

(***************************************************************************)
(* place_order (alias trade), trade_binance.py:125-219, as called from the *)
(* main loop with both percentages given.                                  *)
(***************************************************************************)
\* Prices, ticks, steps and quantities are in units of 0.001, percentages
\* in units of 0.0001 % (whole multiples of 0.01 %), raw prices, which the
\* code holds before rounding them, in units of 0.0000001.
\* Ticks the main loop meets: 0.1, and the 0 a PRICE_FILTER may carry.
TickValues == {0, 100}

\* What the exchange answers while the main loop trades: a mark price of
\* 50000, a lot step of 0.001, an average entry price of 100.07.
MarkPrices == {50000000}
StepSizes == {1}
EntryPrices == {100070}
\* A poll of the position while the main loop trades shows the filled
\* position of the traded side, or no position yet.
PollAnswers ==
    {[kind |-> "ok", positions |-> <<>>]}
    \cup {[kind |-> "ok", positions |-> <<[amt |-> a, entryPrice |-> 100070]>>] :
             a \in {-1, 1}}

\* main.py:14-18: the amount per trade, the stop-loss percentage and the
\* buffer main adds to |rate_pct| for the take profit.
USDT_AMOUNT == 100
STOP_LOSS_PCT == 5000
TAKE_PROFIT_BUFFER_PCT == 5000

\* _round_price: math.log10(tick) raises ValueError for tick <= 0.
RoundPriceRaises(t) == t <= 0

Abs(x) == IF x < 0 THEN -x ELSE x

RECURSIVE Pow10(_)
Pow10(n) == IF n <= 0 THEN 1 ELSE 10 * Pow10(n - 1)

\* int(round(-math.log10(x))) for x > 0 given in units of 0.001: the p
\* with 10^(-p - 1/2) < x <= 10^(-p + 1/2), among the decimals 0..3.
Precision(x) ==
    CHOOSE p \in 0..3 :
        Pow10(2 * (3 - p)) < 10 * x * x /\ 10 * x * x <= Pow10(2 * (3 - p) + 2)

\* A quantity that is raised to one unit of its precision when it
\* truncates to zero.
CalculateQuantityClamped(usdt_amount, price, step_size) ==
    LET precision == Precision(step_size)
        qty == ((usdt_amount * 1000 * Pow10(precision)) \div price)
               * Pow10(3 - precision)
    IN  IF qty <= 0 THEN Pow10(3 - precision) ELSE qty

\* _calculate_quantity, lines 47-49: usdt / price floored at `precision`
\* decimals; the caller has made sure of price > 0 and step_size > 0.
CalculateQuantity(usdt_amount, price, step_size) ==
    LET precision == Precision(step_size)
    IN  ((usdt_amount * 1000 * Pow10(precision)) \div price) * Pow10(3 - precision)

\* entry_price * (1 - pct / 100) and entry_price * (1 + pct / 100),
\* lines 171-194, exact, in units of 0.0000001.
RawBelow(entry_price, pct) == entry_price * (10000 - pct \div 100)
RawAbove(entry_price, pct) == entry_price * (10000 + pct \div 100)

\* _round_price, lines 57-59: floor or ceil at `precision` decimals.
RoundPrice(raw, t, direction) ==
    LET grid == Pow10(7 - Precision(t))
    IN  IF direction = "down"
        THEN (raw \div grid) * Pow10(3 - Precision(t))
        ELSE ((raw + grid - 1) \div grid) * Pow10(3 - Precision(t))

\* 'long' if rate_pct > 0 else 'short' (main.py:137).
Direction(rate_pct) == IF rate_pct > 0 THEN "long" ELSE "short"

\* Lines 133-135: the lowercased direction has to be 'long' or 'short'.
ValidSides == {"long", "short"}

EntrySide(side) == IF side = "long" THEN "BUY" ELSE "SELL"
\* Protective orders on the side of the entry.
ExitSideOfEntry(side) == IF side = "long" THEN "BUY" ELSE "SELL"
ExitSide(side)  == IF side = "long" THEN "SELL" ELSE "BUY"

\* _fetch_entry_price, line 103: max_attempts.
MAX_ATTEMPTS == 5

\* What futures_position_information answers to one poll: a
\* BinanceAPIException, or a list of positions with the sign of
\* positionAmt and the entryPrice.
ApiError == [kind |-> "error", positions |-> <<>>]
PositionList(l) == [kind |-> "ok", positions |-> l]
NoPoll == [kind |-> "none", positions |-> <<>>]
Position(amt, entryPrice) == [amt |-> amt, entryPrice |-> entryPrice]

\* Any open position is taken for the one of this order.
MatchesSideAnySign(pos, side) == pos.amt # 0

\* Line 112: a non-zero amount with the sign of the side.
MatchesSide(pos, side) ==
    pos.amt # 0 /\ ((side = "long" /\ pos.amt > 0) \/ (side = "short" /\ pos.amt < 0))

\* Lines 109-115 on one answer: the entry price of the first position of
\* the list that matches the side and has a positive entry price, 0 if
\* the loop over the list ends without a return.
Resolved(ans, side) ==
    LET hits == {i \in DOMAIN ans.positions :
                    MatchesSide(ans.positions[i], side)
                    /\ ans.positions[i].entryPrice > 0}
    IN  IF ans.kind # "ok" \/ hits = {} THEN 0
        ELSE ans.positions[CHOOSE i \in hits : \A j \in hits : i <= j].entryPrice

NoCall ==
    [result |-> "none", side |-> "long", usdt_amount |-> 0, stop_loss_pct |-> 0,
     take_profit_pct |-> 0, mark |-> 0, step |-> 0, qty |-> 0, tick |-> 0, entry_price |-> 0,
     raw_sl |-> 0, sl_price |-> 0, raw_tp |-> 0, tp_price |-> 0,
     sl_id |-> NoId, tp_id |-> NoId, failedAt |-> "none",
     attempts |-> 0, last_poll |-> NoPoll, price_src |-> "none"]

\* place_order(symbol, side, usdt_amount, stop_loss_pct, take_profit_pct)
\* is entered.
CallOf(side, usdt_amount, stop_loss_pct, take_profit_pct) ==
    [NoCall EXCEPT !.result = "running", !.side = side,
                   !.usdt_amount = usdt_amount, !.stop_loss_pct = stop_loss_pct,
                   !.take_profit_pct = take_profit_pct]

\* The exchange accepted a futures_create_order; its orderId is the
\* order's number within the call. price is the stopPrice of a
\* STOP_MARKET and the price of a LIMIT order.
Accepted(type, side, reduceOnly, quantity, price) ==
    Append(poReq, [op |-> "create", type |-> type, side |-> side,
                   reduceOnly |-> reduceOnly, quantity |-> quantity,
                   price |-> price, orderId |-> Len(poReq) + 1])

\* The except Exception of main.py:197-200: log, go on with the next candidate.
CandidateFailed ==
    /\ failedCands' = failedCands \cup {idx}
    /\ idx' = idx + 1
    /\ pc' = "cand"

\* An exception leaves place_order and submits a closing order first.
PoRaiseRollback(step) ==
    /\ po' = [po EXCEPT !.result = "raised", !.failedAt = step]
    /\ poReq' = IF poReq = <<>> THEN poReq
                ELSE Accepted("MARKET", ExitSide(po.side), TRUE, po.qty, 0)
    /\ CandidateFailed

\* An exception leaves place_order (re-raised at lines 214-217 or passing
\* through): nothing is submitted on the way out, and the caller in
\* main.py catches it.
PoRaise(step) ==
    /\ po' = [po EXCEPT !.result = "raised", !.failedAt = step]
    /\ poReq' = poReq
    /\ CandidateFailed

\* Lines 133-145: direction check, mark price, step size, quantity, tick.
\* Line 135 raises ValueError for another direction; ok = FALSE is a
\* fetch that raises before the quantity is computed; line 51 raises
\* ValueError for a quantity <= 0.
PoPrep(ok, t, mark, step) ==
    /\ pc = "po_prep"
    /\ IF ~ok \/ po.side \notin ValidSides
       THEN PoRaise("prep")
       ELSE IF CalculateQuantity(po.usdt_amount, mark, step) <= 0
       THEN /\ po' = [po EXCEPT !.mark = mark, !.step = step,
                                !.result = "raised", !.failedAt = "prep"]
            /\ poReq' = poReq
            /\ CandidateFailed
       ELSE /\ po' = [po EXCEPT !.tick = t, !.mark = mark, !.step = step,
                                !.qty = CalculateQuantity(po.usdt_amount, mark, step)]
            /\ pc' = "po_entry"
            /\ UNCHANGED <<poReq, failedCands, idx>>
    /\ UNCHANGED <<now, wake, secs_until_hour, passStarts, all_filtered, tick,
                   topErrors, interrupted, handlersClosed>>
    /\ UNCHANGED <<ocoVars, cacheVars, libVars>>

\* Lines 149-154: the MARKET entry order.
PoEntry(ok) ==
    /\ pc = "po_entry"
    /\ IF ok
       THEN /\ poReq' = Accepted("MARKET", EntrySide(po.side), FALSE, po.qty, 0)
            /\ pc' = "po_price"
            /\ UNCHANGED <<po, failedCands, idx>>
       ELSE PoRaise("entry")
    /\ UNCHANGED <<now, wake, secs_until_hour, passStarts, all_filtered, tick,
                   topErrors, interrupted, handlersClosed>>
    /\ UNCHANGED <<ocoVars, cacheVars, libVars>>

\* Lines 107-119: one pass of the polling loop of _fetch_entry_price; the
\* except clause of line 117 swallows an API error, and an answer that
\* does not resolve is followed by time.sleep(delay).
PoPoll(ans) ==
    /\ pc = "po_price"
    /\ po.attempts < MAX_ATTEMPTS
    /\ IF Resolved(ans, po.side) > 0
       THEN /\ po' = [po EXCEPT !.attempts = @ + 1, !.last_poll = ans,
                                !.entry_price = Resolved(ans, po.side),
                                !.price_src = "position"]
            /\ pc' = "po_check"
       ELSE /\ po' = [po EXCEPT !.attempts = @ + 1, !.last_poll = ans]
            /\ pc' = "po_price"
    /\ UNCHANGED <<poReq, failedCands, idx>>
    /\ UNCHANGED <<now, wake, secs_until_hour, passStarts, all_filtered, tick,
                   topErrors, interrupted, handlersClosed>>
    /\ UNCHANGED <<ocoVars, cacheVars, libVars>>

\* Lines 120-121: the loop ran out, _get_mark_price answers a positive
\* price or a price <= 0, or raises.
PoEntryPrice(outcome, price) ==
    /\ pc = "po_price"
    /\ po.attempts = MAX_ATTEMPTS
    /\ IF outcome = "raise"
       THEN PoRaise("price")
       ELSE /\ po' = [po EXCEPT !.entry_price = IF outcome = "positive" THEN price ELSE 0,
                                !.price_src = "mark"]
            /\ pc' = "po_check"
            /\ UNCHANGED <<poReq, failedCands, idx>>
    /\ UNCHANGED <<now, wake, secs_until_hour, passStarts, all_filtered, tick,
                   topErrors, interrupted, handlersClosed>>
    /\ UNCHANGED <<ocoVars, cacheVars, libVars>>

\* Lines 157-163: _fetch_entry_price has returned and its locals are
\* gone; ValueError for an entry price <= 0.
PoCheckPrice ==
    /\ pc = "po_check"
    /\ IF po.entry_price <= 0
       THEN PoRaise("price")
       ELSE /\ pc' = "po_sl"
            /\ po' = [po EXCEPT !.attempts = 0, !.last_poll = NoPoll]
            /\ UNCHANGED <<poReq, failedCands, idx>>
    /\ UNCHANGED <<now, wake, secs_until_hour, passStarts, all_filtered, tick,
                   topErrors, interrupted, handlersClosed>>
    /\ UNCHANGED <<ocoVars, cacheVars, libVars>>

\* Lines 170-175: the raw stop-loss price and the direction it is rounded in.
RawStopLoss ==
    IF po.side = "long" THEN RawBelow(po.entry_price, po.stop_loss_pct)
    ELSE RawAbove(po.entry_price, po.stop_loss_pct)
StopLossRounding == IF po.side = "long" THEN "down" ELSE "up"

\* Lines 190-195: the raw take-profit price and the direction it is
\* rounded in.
RawTakeProfit ==
    IF po.side = "long" THEN RawAbove(po.entry_price, po.take_profit_pct)
    ELSE RawBelow(po.entry_price, po.take_profit_pct)
TakeProfitRounding == IF po.side = "long" THEN "up" ELSE "down"

\* Lines 169-186: round the trigger price, submit the STOP_MARKET order.
PoStopLoss(ok) ==
    /\ pc = "po_sl"
    /\ IF RoundPriceRaises(po.tick)
       THEN ok /\ PoRaise("sl")
       ELSE IF ok
       THEN LET sl_price == RoundPrice(RawStopLoss, po.tick, StopLossRounding)
            IN  /\ poReq' = Accepted("STOP_MARKET", ExitSide(po.side), TRUE,
                                     po.qty, sl_price)
                /\ po' = [po EXCEPT !.sl_id = Len(poReq) + 1,
                                    !.raw_sl = RawStopLoss, !.sl_price = sl_price]
                /\ pc' = "po_tp"
                /\ UNCHANGED <<failedCands, idx>>
       ELSE PoRaise("sl")
    /\ UNCHANGED <<now, wake, secs_until_hour, passStarts, all_filtered, tick,
                   topErrors, interrupted, handlersClosed>>
    /\ UNCHANGED <<ocoVars, cacheVars, libVars>>

\* Lines 189-207: round the limit price, submit the LIMIT order.
PoTakeProfit(ok) ==
    /\ pc = "po_tp"
    /\ IF RoundPriceRaises(po.tick)
       THEN ok /\ PoRaise("tp")
       ELSE IF ok
       THEN LET tp_price == RoundPrice(RawTakeProfit, po.tick, TakeProfitRounding)
            IN  /\ poReq' = Accepted("LIMIT", ExitSide(po.side), TRUE,
                                     po.qty, tp_price)
                /\ po' = [po EXCEPT !.tp_id = Len(poReq) + 1,
                                    !.raw_tp = RawTakeProfit, !.tp_price = tp_price]
                /\ pc' = "po_ret"
                /\ UNCHANGED <<failedCands, idx>>
       ELSE PoRaise("tp")
    /\ UNCHANGED <<now, wake, secs_until_hour, passStarts, all_filtered, tick,
                   topErrors, interrupted, handlersClosed>>
    /\ UNCHANGED <<ocoVars, cacheVars, libVars>>

\* Lines 209-212: the entry order's record is returned; no thread is
\* started and _watch_and_cancel is not called.
PoReturn ==
    /\ pc = "po_ret"
    /\ po' = [po EXCEPT !.result = "returned"]
    /\ pc' = "notify"
    /\ UNCHANGED <<poReq, failedCands, idx>>
    /\ UNCHANGED <<now, wake, secs_until_hour, passStarts, all_filtered, tick,
                   topErrors, interrupted, handlersClosed>>
    /\ UNCHANGED <<ocoVars, cacheVars, libVars>>

(***************************************************************************)
(* main(), main.py:116-223: the scheduler loop.                            *)
(***************************************************************************)
HOUR_SEC    == 3600
WINDOW_SEC  == 10
POLL_SEC    == 1
BACKOFF_SEC == 5

\* rate_pct as scan() emits it past main's threshold, in units of 0.0001.
RatePcts == {-3000, 4200}

\* The records of scan(), lines 153-158, times in milliseconds.
Candidates ==
    [symbol : Symbols, rate_pct : RatePcts, next_funding : {28800000},
     interval_h : {8}]

\* What safe_scan can return: a list of records of distinct symbols; the
\* empty list also stands for every failure it swallows (main.py:46-74).
CandidateLists ==
    {<<>>} \cup {<<c>> : c \in Candidates}
           \cup {l \in {<<c, d>> : c \in Candidates, d \in Candidates} :
                    l[1].symbol < l[2].symbol}

poPcs   == {"po_prep", "po_entry", "po_price", "po_check", "po_sl", "po_tp", "po_ret"}
passPcs == {"scan", "cand", "cand_round", "notify"} \cup poPcs
\* Positions inside the try body of main.py:117-208.
tryPcs  == {"top", "poll_sleep", "pass_sleep"} \cup passPcs

mainUnchangedByLoop == <<po, poReq, interrupted, handlersClosed>>

\* The handler that ends the loop instead of backing off.
TopLevelHandlerExits ==
    /\ topErrors' = topErrors + 1
    /\ pc' = "crashed"
    /\ wake' = wake

\* The except Exception of main.py:218-223: log, sleep 5 s, continue.
TopLevelHandler ==
    /\ topErrors' = topErrors + 1
    /\ pc' = "backoff"
    /\ wake' = now + BACKOFF_SEC

\* Lines 118-122 and 205-206: read the clock; enter the pass inside the
\* window, else sleep one second.
LoopTop ==
    /\ pc = "top"
    /\ LET secs_since_hour == now % HOUR_SEC
           until == HOUR_SEC - secs_since_hour
       IN  /\ secs_until_hour' = until
           /\ IF until <= WINDOW_SEC
              THEN /\ pc' = "scan"
                   /\ passStarts' = Append(passStarts, now + until)
                   /\ wake' = wake
              ELSE /\ pc' = "poll_sleep"
                   /\ wake' = now + POLL_SEC
                   /\ passStarts' = passStarts
    /\ UNCHANGED <<now, all_filtered, idx, tick, failedCands, topErrors>>
    /\ UNCHANGED mainUnchangedByLoop
    /\ UNCHANGED <<ocoVars, cacheVars, libVars>>

\* time.sleep(1) of line 206 returns.
PollSleepDone ==
    /\ pc = "poll_sleep"
    /\ now >= wake
    /\ pc' = "top"
    /\ UNCHANGED <<now, wake, secs_until_hour, passStarts, all_filtered, idx, tick,
                   failedCands, topErrors>>
    /\ UNCHANGED mainUnchangedByLoop
    /\ UNCHANGED <<ocoVars, cacheVars, libVars>>

\* Line 128: safe_scan returns the candidates of this pass.
SafeScan(cands) ==
    /\ pc = "scan"
    /\ all_filtered' = cands
    /\ idx' = 1
    /\ failedCands' = {}
    /\ pc' = "cand"
    /\ UNCHANGED <<now, wake, secs_until_hour, passStarts, tick, topErrors>>
    /\ UNCHANGED mainUnchangedByLoop
    /\ UNCHANGED <<ocoVars, cacheVars, libVars>>

\* Lines 134-146: the next candidate, its mark price and tick; after the
\* last one, line 203 sleeps past the hour boundary.
CandFetch(ok, t) ==
    /\ pc = "cand"
    /\ IF idx > Len(all_filtered)
       THEN /\ ok /\ t = 0
            /\ pc' = "pass_sleep"
            /\ wake' = now + secs_until_hour + 1
            /\ UNCHANGED <<idx, tick, failedCands>>
       ELSE IF ok
       THEN /\ tick' = t
            /\ pc' = "cand_round"
            /\ UNCHANGED <<idx, wake, failedCands>>
       ELSE /\ t = 0
            /\ failedCands' = failedCands \cup {idx}
            /\ idx' = idx + 1
            /\ pc' = "cand"
            /\ UNCHANGED <<tick, wake>>
    /\ UNCHANGED <<now, secs_until_hour, passStarts, all_filtered, topErrors>>
    /\ UNCHANGED mainUnchangedByLoop
    /\ UNCHANGED <<ocoVars, cacheVars, libVars>>

\* Lines 148-178: the stop-loss / take-profit prices for the log line are
\* rounded outside both inner try blocks, so a ValueError of _round_price
\* reaches the handler of line 218; otherwise trader.trade is entered.
CandRound ==
    /\ pc = "cand_round"
    /\ IF RoundPriceRaises(tick)
       THEN /\ TopLevelHandler
            /\ failedCands' = failedCands \cup {idx}
            /\ UNCHANGED <<po, poReq>>
       ELSE /\ pc' = "po_prep"
            /\ po' = CallOf(Direction(all_filtered[idx].rate_pct), USDT_AMOUNT,
                            STOP_LOSS_PCT,
                            Abs(all_filtered[idx].rate_pct) + TAKE_PROFIT_BUFFER_PCT)
            /\ poReq' = <<>>
            /\ UNCHANGED <<wake, topErrors, failedCands>>
    /\ UNCHANGED <<now, secs_until_hour, passStarts, all_filtered, idx, tick,
                   interrupted, handlersClosed>>
    /\ UNCHANGED <<ocoVars, cacheVars, libVars>>

\* Lines 179-195: log the order, send the Telegram message; send_message
\* catches every Exception itself and answers a bool.
Notify(sent) ==
    /\ pc = "notify"
    /\ idx' = idx + 1
    /\ pc' = "cand"
    /\ UNCHANGED <<now, wake, secs_until_hour, passStarts, all_filtered, tick,
                   failedCands, topErrors>>
    /\ UNCHANGED mainUnchangedByLoop
    /\ UNCHANGED <<ocoVars, cacheVars, libVars>>

\* time.sleep(secs_until_hour + 1) of line 203 returns.
PassSleepDone ==
    /\ pc = "pass_sleep"
    /\ now >= wake
    /\ pc' = "top"
    /\ UNCHANGED <<now, wake, secs_until_hour, passStarts, all_filtered, idx, tick,
                   failedCands, topErrors>>
    /\ UNCHANGED mainUnchangedByLoop
    /\ UNCHANGED <<ocoVars, cacheVars, libVars>>

\* time.sleep(5) of line 222 returns; continue.
BackoffDone ==
    /\ pc = "backoff"
    /\ now >= wake
    /\ pc' = "top"
    /\ UNCHANGED <<now, wake, secs_until_hour, passStarts, all_filtered, idx, tick,
                   failedCands, topErrors>>
    /\ UNCHANGED mainUnchangedByLoop
    /\ UNCHANGED <<ocoVars, cacheVars, libVars>>

\* A KeyboardInterrupt. Inside the try body (none of the inner handlers
\* catches a BaseException) lines 210-216 close the log handlers and break.
\* Inside the except Exception handler (the sleep of line 222) no clause of
\* the same try statement applies: it leaves main() uncaught.
Interrupt ==
    /\ ~interrupted
    /\ pc \in tryPcs \cup {"backoff"}
    /\ interrupted' = TRUE
    /\ IF pc \in tryPcs
       THEN /\ pc' = "exited"
            /\ handlersClosed' = TRUE
       ELSE /\ pc' = "crashed"
            /\ handlersClosed' = handlersClosed
    /\ UNCHANGED <<now, wake, secs_until_hour, passStarts, all_filtered, idx, tick,
                   po, poReq, failedCands, topErrors>>
    /\ UNCHANGED <<ocoVars, cacheVars, libVars>>

\* A second of wall-clock time passes, whatever main() is doing.
Tick ==
    /\ now < MaxTs
    /\ now' = now + 1
    /\ UNCHANGED <<pc, wake, secs_until_hour, passStarts, all_filtered, idx, tick,
                   po, poReq, failedCands, topErrors, interrupted, handlersClosed>>
    /\ UNCHANGED <<ocoVars, cacheVars, libVars>>

InitMain ==
    /\ now = StartTs
    /\ pc = "top"
    /\ wake = 0
    /\ secs_until_hour = 0
    /\ passStarts = <<>>
    /\ all_filtered = <<>>
    /\ idx = 1
    /\ tick = 0
    /\ po = NoCall
    /\ poReq = <<>>
    /\ failedCands = {}
    /\ topErrors = 0
    /\ interrupted = FALSE
    /\ handlersClosed = FALSE

NextMain ==
    \/ LoopTop
    \/ PollSleepDone
    \/ \E cands \in CandidateLists : SafeScan(cands)
    \/ \E ok \in BOOLEAN, t \in TickValues : CandFetch(ok, t)
    \/ CandRound
    \/ \E ok \in BOOLEAN, t \in TickValues, mark \in MarkPrices, step \in StepSizes :
          PoPrep(ok, t, mark, step)
    \/ \E ok \in BOOLEAN : PoEntry(ok)
    \/ \E ans \in PollAnswers : PoPoll(ans)
    \/ \E outcome \in {"positive", "nonpositive", "raise"}, price \in EntryPrices :
          PoEntryPrice(outcome, price)
    \/ PoCheckPrice
    \/ \E ok \in BOOLEAN : PoStopLoss(ok)
    \/ \E ok \in BOOLEAN : PoTakeProfit(ok)
    \/ PoReturn
    \/ \E sent \in BOOLEAN : Notify(sent)
    \/ PassSleepDone
    \/ BackoffDone
    \/ Interrupt
    \/ Tick

(***************************************************************************)
(* FundingRateScanner's exchange-info cache,                               *)
(* funding_rate_scanner.py:25, 41-43, 65-96.                               *)
(***************************************************************************)
CACHE_TTL == 1800

\* Seconds that pass before a call: none, one, just under and just at the TTL.
Elapses == {0, 1, CACHE_TTL - 1, CACHE_TTL}

\* The variables of main() and place_order that the clock is not.
cacheFrame == <<pc, wake, secs_until_hour, passStarts, all_filtered, idx, tick,
                po, poReq, failedCands, topErrors, interrupted, handlersClosed>>

\* A Python value that may be None.
None    == [some |-> FALSE, v |-> {}]
Some(x) == [some |-> TRUE, v |-> x]

\* What _request_with_retries gives: the parsed answer, or it raises.
Raises    == [ok |-> FALSE, v |-> {}]
Answer(x) == [ok |-> TRUE, v |-> x]

\* exchangeInfo answers, by the PERPETUAL symbols they hold (lines 76-80).
InfoAnswers == {Raises} \cup {Answer(S) : S \in SUBSET Symbols}

\* The symbol -> fundingInterval hours of a fundingRate answer (line 85),
\* as the set of its <<symbol, hours>> pairs: no symbol listed, or all of
\* them with 4 or with 8 hours.
IntervalMaps == {{<<x, h>> : x \in S} : S \in {{}, Symbols}, h \in {4, 8}}
FundAnswers  == {Raises} \cup {Answer(f) : f \in IntervalMaps}

\* The test `is not None` in the place of truthiness.
NotNone(s) == s.some

\* Python truthiness of _cached_symbols: None and the empty set are falsy.
Truthy(s) == s.some /\ s.v # {}

\* The guard admitting an age of exactly the TTL.
CacheFreshInclusive(t) == Truthy(cached_symbols) /\ (t - last_info_ts) <= CACHE_TTL

\* Line 71: the early return of _refresh_exchange_info_if_needed at time t.
CacheFresh(t) == Truthy(cached_symbols) /\ (t - last_info_ts) < CACHE_TTL

NoCallYet ==
    [kind |-> "none", info |-> 0, fund |-> 0, raised |-> FALSE, ret |-> {}]

\* _refresh_exchange_info_if_needed at time t (lines 70-88). r1 and r2 are
\* the outcomes of the exchangeInfo and the fundingRate request. Line 81
\* assigns _cached_symbols before the second request is made; lines 86 and
\* 88 run only after it succeeded.
Refresh(t, r1, r2) ==
    IF CacheFresh(t) \/ ~r1.ok
    THEN UNCHANGED <<cached_symbols, cached_intervals, last_info_ts, okAt, okSyms>>
    ELSE IF ~r2.ok
    THEN /\ cached_symbols' = Some(r1.v)
         /\ UNCHANGED <<cached_intervals, last_info_ts, okAt, okSyms>>
    ELSE /\ cached_symbols' = Some(r1.v)
         /\ cached_intervals' = Some(r2.v)
         /\ last_info_ts' = t
         /\ okAt' = t
         /\ okSyms' = r1.v

\* The requests a refresh at time t issues, and whether it raises.
InfoRequests(t)          == IF CacheFresh(t) THEN 0 ELSE 1
FundRequests(t, r1)      == IF CacheFresh(t) \/ ~r1.ok THEN 0 ELSE 1
RefreshRaises(t, r1, r2) == ~CacheFresh(t) /\ (~r1.ok \/ ~r2.ok)

\* Outcomes of requests that are not made are not enumerated.
AnswersUsed(t, r1, r2) ==
    /\ CacheFresh(t) => r1 = Raises
    /\ (CacheFresh(t) \/ ~r1.ok) => r2 = Raises

\* A call d seconds after the previous one: refresh, then, unless it
\* raised, `self._cached_symbols or set()` / `self._cached_intervals or {}`.
Call(kind, d, r1, r2) ==
    /\ calls < MaxCalls
    /\ AnswersUsed(now + d, r1, r2)
    /\ calls' = calls + 1
    /\ now' = now + d
    /\ Refresh(now + d, r1, r2)
    /\ lastCall' =
         [kind |-> kind,
          info |-> InfoRequests(now + d),
          fund |-> FundRequests(now + d, r1),
          raised |-> RefreshRaises(now + d, r1, r2),
          ret |-> IF RefreshRaises(now + d, r1, r2) THEN {}
                  ELSE IF kind = "symbols" THEN cached_symbols'.v
                  ELSE cached_intervals'.v]

\* _get_perpetual_symbols, lines 90-92.
GetPerpetualSymbols(d, r1, r2) ==
    /\ Call("symbols", d, r1, r2)
    /\ UNCHANGED <<ocoVars, cacheFrame, libVars>>

\* _get_intervals, lines 94-96.
GetIntervals(d, r1, r2) ==
    /\ Call("intervals", d, r1, r2)
    /\ UNCHANGED <<ocoVars, cacheFrame, libVars>>

InitCache ==
    /\ cached_symbols = None
    /\ cached_intervals = None
    /\ last_info_ts = 0
    /\ calls = 0
    /\ lastCall = NoCallYet
    /\ okAt = -1
    /\ okSyms = {}

NextCache ==
    \/ \E d \in Elapses, r1 \in InfoAnswers, r2 \in FundAnswers :
          GetPerpetualSymbols(d, r1, r2)
    \/ \E d \in Elapses, r1 \in InfoAnswers, r2 \in FundAnswers :
          GetIntervals(d, r1, r2)

(***************************************************************************)
(* FundingRateScanner._request_with_retries,                               *)
(* funding_rate_scanner.py:45-63.                                          *)
(***************************************************************************)
DEFAULT_MAX_RETRIES == 3
BACKOFF_STEP        == 2

Urls == {"exchangeInfo", "premiumIndex", "fundingRate"}

\* The max_retries a call is made with: the default, or fewer.
RetryCounts == 0..DEFAULT_MAX_RETRIES

\* What one GET can do: answer a parsable body, raise ConnectionError or
\* Timeout (line 54), raise HTTPError out of raise_for_status (line 58), or
\* raise something no except clause names (an unparsable body in
\* resp.json(), another RequestException).
GetOutcomes == {"ok", "ConnectionError", "Timeout", "HTTPError", "other"}
Transient   == {"ConnectionError", "Timeout"}

NoRequest ==
    [pc |-> "idle", url |-> "exchangeInfo", max_retries |-> 0, attempt |-> 0,
     outcomes |-> <<>>, waits |-> <<>>, error |-> "none"]

\* The same wait after every failed attempt.
BackoffWaitFixed(attempt) == BACKOFF_STEP

\* Line 55: wait = attempt * 2.
BackoffWait(attempt) == attempt * BACKOFF_STEP

\* The call, and range(1, max_retries + 1) giving its first value.
RqStart(u, n) ==
    /\ rq.pc = "idle"
    /\ rq' = [NoRequest EXCEPT !.pc = "loop", !.url = u, !.max_retries = n,
                                !.attempt = 1]
    /\ UNCHANGED <<ocoVars, mainVars, cacheVars, threshold, sc>>

\* Lines 50-61: one pass through the loop body.
RqAttempt(out) ==
    /\ rq.pc = "loop"
    /\ rq.attempt <= rq.max_retries
    /\ rq' = CASE out = "ok" ->
                    [rq EXCEPT !.outcomes = Append(@, out), !.pc = "returned"]
               [] out \in Transient ->
                    [rq EXCEPT !.outcomes = Append(@, out),
                               !.waits = Append(@, BackoffWait(rq.attempt)),
                               !.pc = "sleep"]
               [] OTHER ->
                    [rq EXCEPT !.outcomes = Append(@, out), !.pc = "raised",
                               !.error = out]
    /\ UNCHANGED <<ocoVars, mainVars, cacheVars, threshold, sc>>

\* time.sleep(wait) of line 57 returns; the for loop takes its next value.
RqSleepDone ==
    /\ rq.pc = "sleep"
    /\ rq' = [rq EXCEPT !.pc = "loop", !.attempt = @ + 1]
    /\ UNCHANGED <<ocoVars, mainVars, cacheVars, threshold, sc>>

\* Line 63: the loop ran out.
RqExhausted ==
    /\ rq.pc = "loop"
    /\ rq.attempt > rq.max_retries
    /\ rq' = [rq EXCEPT !.pc = "raised", !.error = "ConnectionError"]
    /\ UNCHANGED <<ocoVars, mainVars, cacheVars, threshold, sc>>

InitRetry == rq = NoRequest

NextRetry ==
    \/ \E u \in Urls, n \in RetryCounts : RqStart(u, n)
    \/ \E out \in GetOutcomes : RqAttempt(out)
    \/ RqSleepDone
    \/ RqExhausted

(***************************************************************************)
(* FundingRateScanner.scan and its callers: safe_scan (main.py:46-74),     *)
(* get_upcoming_pairs and get_recent_pairs                                 *)
(* (funding_rate_scanner.py:103-160, 174-210).                             *)
(* Rates and percentages are in units of 0.0001, times in milliseconds.    *)
(***************************************************************************)
THRESHOLD_PCT      == 3000
DEFAULT_INTERVAL_H == 8
SAFE_SCAN_RETRIES  == 3
HOUR_MS            == 3600000
SEC_MS             == 1000

\* threshold_pct values a scanner is built with: 0 and main's 0.3.
ThresholdPcts == {0, THRESHOLD_PCT}

\* Line 35: self.threshold = threshold_pct / 100.0.
ThresholdOf(threshold_pct) == threshold_pct \div 100

\* A field of a premiumIndex entry: missing, JSON null, a value that does
\* not parse as a number, or a number.
Absent == [k |-> "absent", v |-> 0]
Null   == [k |-> "null", v |-> 0]
Bad    == [k |-> "bad", v |-> 0]
Num(x) == [k |-> "num", v |-> x]

\* entry['symbol'] missing or empty.
NoSym == 0

\* lastFundingRate / fundingRate of an entry: a rate at the 0.3 % threshold,
\* one just under it and one above it; the secondary field alone; neither;
\* an unparsable primary; a null secondary.
RateFields ==
    {<<Num(-30), Absent>>, <<Num(29), Absent>>, <<Num(42), Absent>>,
     <<Null, Num(-30)>>, <<Absent, Absent>>, <<Bad, Num(42)>>, <<Absent, Null>>}

\* Two funding times, four hours apart.
FundingTimes == {8 * HOUR_MS, 12 * HOUR_MS}

NextFields == {Absent, Bad} \cup {Num(t) : t \in FundingTimes}

PremiumEntries ==
    {[symbol |-> y, last |-> r[1], fund |-> r[2], next |-> n] :
        y \in Symbols \cup {NoSym}, r \in RateFields, n \in NextFields}

\* Entries with a listed symbol, a primary rate above the 0.3 % threshold
\* and a funding time.
GoodEntries ==
    {e \in PremiumEntries :
        /\ e.symbol # NoSym
        /\ e.last = Num(42)
        /\ e.next.k = "num"}

\* premiumIndex answers: the request raises, or a list of entries: none,
\* any one entry, or any entry before or after a good one.
PremiumLists ==
    {<<>>} \cup {<<e>> : e \in PremiumEntries}
           \cup {<<e, g>> : e \in PremiumEntries, g \in GoodEntries}
           \cup {<<g, e>> : e \in PremiumEntries, g \in GoodEntries}
PremiumAnswers == {Raises} \cup {Answer(l) : l \in PremiumLists}


\* intervals.get(sym, 8), line 151.
IntervalOf(intervals, sym) ==
    IF \E q \in intervals : q[1] = sym
    THEN (CHOOSE q \in intervals : q[1] = sym)[2]
    ELSE DEFAULT_INTERVAL_H

\* Lines 134-136: the primary field, else the secondary one, else 0.
RawRate(entry) ==
    IF entry.last.k \in {"absent", "null"}
    THEN IF entry.fund.k = "absent" THEN Num(0) ELSE entry.fund
    ELSE entry.last

\* The record of lines 153-158.
ScanRecord(entry, intervals) ==
    [symbol |-> entry.symbol,
     rate_pct |-> RawRate(entry).v * 100,
     next_funding |-> entry.next.v,
     interval_h |-> IntervalOf(intervals, entry.symbol)]

\* The loop body with the threshold test of line 143 as <= .
EntryOutcomeStrict(entry, symbols, thr) ==
    IF entry.symbol = NoSym \/ entry.symbol \notin symbols THEN "skip"
    ELSE IF RawRate(entry).k # "num" THEN "skip"
    ELSE IF Abs(RawRate(entry).v) <= thr THEN "skip"
    ELSE IF entry.next.k \in {"absent", "null"} THEN "skip"
    ELSE IF entry.next.k = "bad" THEN "raise"
    ELSE "emit"

\* One pass through the loop body of lines 128-158:
\* "skip" for a continue, "raise" for an exception no clause of scan()
\* catches (ts_ms / 1000 on a value that is no number), else "emit".
EntryOutcome(entry, symbols, thr) ==
    IF entry.symbol = NoSym \/ entry.symbol \notin symbols THEN "skip"
    ELSE IF RawRate(entry).k # "num" THEN "skip"
    ELSE IF Abs(RawRate(entry).v) < thr THEN "skip"
    ELSE IF entry.next.k \in {"absent", "null"} THEN "skip"
    ELSE IF entry.next.k = "bad" THEN "raise"
    ELSE "emit"

RECURSIVE ScanLoop(_, _, _, _)
\* Lines 125-160: [raised, results]; an exception ends the loop.
ScanLoop(premium, symbols, intervals, thr) ==
    IF premium = <<>> THEN [raised |-> FALSE, results |-> <<>>]
    ELSE LET out  == EntryOutcome(Head(premium), symbols, thr)
             rest == ScanLoop(Tail(premium), symbols, intervals, thr)
         IN  CASE out = "raise" -> [raised |-> TRUE, results |-> <<>>]
               [] out = "skip"  -> rest
               [] OTHER ->
                    IF rest.raised THEN rest
                    ELSE [raised |-> FALSE,
                          results |-> <<ScanRecord(Head(premium), intervals)>>
                                         \o rest.results]

NoScan ==
    [pc |-> "idle", caller |-> "safe_scan", attempt |-> 0, symbols |-> {},
     intervals |-> {}, premium |-> <<>>, results |-> <<>>, premiumFailed |-> FALSE,
     raised |-> "none", waits |-> <<>>, method |-> "none", w |-> 0, clock |-> 0,
     ret |-> <<>>]

\* safe_scan, or one of get_upcoming_pairs and get_recent_pairs: up to
\* their loop over scan()'s records the two run the same code, and which
\* of them it is shows only there.
ScanCallers == {"safe_scan", "window"}

\* What a refresh raises: the ConnectionError of exhausted retries, or
\* anything else (HTTPError, a KeyError on the answer).
RefreshErrors == {"ConnectionError", "other"}

mainUnchangedByScan ==
    <<now, wake, secs_until_hour, passStarts, tick, topErrors, po, poReq,
      interrupted, handlersClosed>>

\* safe_scan hands a list back to line 128 of main().
SafeScanReturns(res) ==
    /\ all_filtered' = res
    /\ idx' = 1
    /\ failedCands' = {}
    /\ pc' = "cand"
    /\ UNCHANGED mainUnchangedByScan

\* scan() returns res to its caller: safe_scan returns it (main.py:53),
\* the two window methods go on to classify it.
ScanReturns(res, failed) ==
    IF sc.caller = "safe_scan"
    THEN /\ sc' = [sc EXCEPT !.pc = "done", !.premium = <<>>, !.results = res,
                             !.premiumFailed = failed, !.ret = res]
         /\ SafeScanReturns(res)
    ELSE /\ sc' = [sc EXCEPT !.pc = "classify", !.premium = <<>>, !.results = res,
                             !.premiumFailed = failed]
         /\ UNCHANGED mainVars

\* scan() raises: safe_scan sleeps and retries after a ConnectionError and
\* returns [] after anything else (main.py:54-68); the two window methods
\* return [] (funding_rate_scanner.py:187-189, 208-210).
ScanRaises(kind) ==
    IF sc.caller = "safe_scan" /\ kind = "ConnectionError"
    THEN /\ sc' = [sc EXCEPT !.pc = "ss_sleep", !.premium = <<>>, !.raised = kind,
                             !.waits = Append(@, sc.attempt * 2)]
         /\ UNCHANGED mainVars
    ELSE IF sc.caller = "safe_scan"
    THEN /\ sc' = [sc EXCEPT !.pc = "done", !.premium = <<>>, !.raised = kind,
                             !.ret = <<>>]
         /\ SafeScanReturns(<<>>)
    ELSE /\ sc' = [sc EXCEPT !.pc = "done", !.premium = <<>>, !.raised = kind,
                             !.ret = <<>>]
         /\ UNCHANGED mainVars

\* A caller enters scan(): safe_scan from line 128 of main(), whose scanner
\* has main's threshold, or one of the two window methods.
ScCall(caller) ==
    /\ sc.pc = "idle"
    /\ caller = "safe_scan" => (pc = "scan" /\ threshold = ThresholdOf(THRESHOLD_PCT))
    /\ sc' = [NoScan EXCEPT !.pc = "symbols", !.caller = caller, !.attempt = 1]
    /\ UNCHANGED <<ocoVars, mainVars, cacheVars, rq, threshold>>

\* Line 114: symbols = self._get_perpetual_symbols().
ScSymbols(r1, r2, kind) ==
    /\ sc.pc = "symbols"
    /\ AnswersUsed(now, r1, r2)
    /\ RefreshRaises(now, r1, r2) \/ kind = "other"
    /\ Refresh(now, r1, r2)
    /\ UNCHANGED <<calls, lastCall>>
    /\ IF RefreshRaises(now, r1, r2)
       THEN ScanRaises(kind)
       ELSE /\ sc' = [sc EXCEPT !.pc = "intervals", !.symbols = cached_symbols'.v]
            /\ UNCHANGED mainVars
    /\ UNCHANGED <<ocoVars, rq, threshold>>

\* Line 115: intervals = self._get_intervals().
ScIntervals(r1, r2, kind) ==
    /\ sc.pc = "intervals"
    /\ AnswersUsed(now, r1, r2)
    /\ RefreshRaises(now, r1, r2) \/ kind = "other"
    /\ Refresh(now, r1, r2)
    /\ UNCHANGED <<calls, lastCall>>
    /\ IF RefreshRaises(now, r1, r2)
       THEN ScanRaises(kind)
       ELSE /\ sc' = [sc EXCEPT !.pc = "loop_wait", !.intervals = cached_intervals'.v]
            /\ UNCHANGED mainVars
    /\ UNCHANGED <<ocoVars, rq, threshold>>

\* The premiumIndex request without the try of lines 118-123: its failure
\* leaves scan() as the ConnectionError of the exhausted retries.
ScPremiumPropagates(ans) ==
    /\ sc.pc = "loop_wait"
    /\ IF ans.ok
       THEN /\ sc' = [sc EXCEPT !.pc = "loop", !.premium = ans.v]
            /\ UNCHANGED mainVars
       ELSE ScanRaises("ConnectionError")
    /\ UNCHANGED <<ocoVars, cacheVars, rq, threshold>>

\* Lines 117-123: the premiumIndex request; any failure makes scan()
\* return [].
ScPremium(ans) ==
    /\ sc.pc = "loop_wait"
    /\ IF ans.ok
       THEN /\ sc' = [sc EXCEPT !.pc = "loop", !.premium = ans.v]
            /\ UNCHANGED mainVars
       ELSE ScanReturns(<<>>, TRUE)
    /\ UNCHANGED <<ocoVars, cacheVars, rq, threshold>>

\* Lines 125-160: the loop over the entries, to its return or its exception.
ScLoop ==
    /\ sc.pc = "loop"
    /\ LET out == ScanLoop(sc.premium, sc.symbols, sc.intervals, threshold)
       IN  IF out.raised THEN ScanRaises("other")
           ELSE ScanReturns(out.results, FALSE)
    /\ UNCHANGED <<ocoVars, cacheVars, rq, threshold>>

\* main.py:61: time.sleep(wait) returns; the next attempt, or lines 69-74.
ScSafeSleepDone ==
    /\ sc.pc = "ss_sleep"
    /\ IF sc.attempt < SAFE_SCAN_RETRIES
       THEN /\ sc' = [sc EXCEPT !.pc = "symbols", !.attempt = @ + 1,
                                !.raised = "none"]
            /\ UNCHANGED mainVars
       ELSE /\ sc' = [sc EXCEPT !.pc = "done", !.ret = <<>>]
            /\ SafeScanReturns(<<>>)
    /\ UNCHANGED <<ocoVars, cacheVars, rq, threshold>>

\* window_sec values, and clock readings around the edges of the windows
\* that start or end at the first funding time.
ScanWindows == {0, WINDOW_SEC}
EdgeOffsets ==
    {-(WINDOW_SEC * SEC_MS) - 1, -(WINDOW_SEC * SEC_MS), -1, 0, 1,
     WINDOW_SEC * SEC_MS, WINDOW_SEC * SEC_MS + 1}
ClockValues == {8 * HOUR_MS + d : d \in EdgeOffsets}

\* The test with the window's lower edge left out.
IsUpcomingExclusive(r, clock, w) ==
    LET delta == r.next_funding - clock
    IN  0 < delta /\ delta <= w * SEC_MS

\* Lines 183-184: delta = (next_funding - now).total_seconds().
IsUpcoming(r, clock, w) ==
    LET delta == r.next_funding - clock
    IN  0 <= delta /\ delta <= w * SEC_MS

\* Lines 203-205: last_ts = next_funding - timedelta(hours=interval_h).
IsRecent(r, clock, w) ==
    LET last_ts == r.next_funding - r.interval_h * HOUR_MS
        delta   == clock - last_ts
    IN  0 <= delta /\ delta <= w * SEC_MS

RECURSIVE PairsOf(_)
\* The (symbol, rate_pct) tuples of a list of records, in its order.
PairsOf(records) ==
    IF records = <<>> THEN <<>>
    ELSE <<(<<Head(records).symbol, Head(records).rate_pct>>)>> \o PairsOf(Tail(records))

\* get_upcoming_pairs, lines 180-186: the loop over scan()'s records, with
\* the clock reading of line 180 (not used before this loop).
ScClassifyUpcoming(w, clock) ==
    /\ sc.pc = "classify"
    /\ sc' = [sc EXCEPT !.pc = "done", !.method = "upcoming", !.w = w,
                        !.clock = clock,
                        !.ret = PairsOf(SelectSeq(sc.results,
                                    LAMBDA r : IsUpcoming(r, clock, w)))]
    /\ UNCHANGED <<ocoVars, mainVars, cacheVars, rq, threshold>>

\* get_recent_pairs, lines 200-207, with the clock reading of line 200.
ScClassifyRecent(w, clock) ==
    /\ sc.pc = "classify"
    /\ sc' = [sc EXCEPT !.pc = "done", !.method = "recent", !.w = w,
                        !.clock = clock,
                        !.ret = PairsOf(SelectSeq(sc.results,
                                    LAMBDA r : IsRecent(r, clock, w)))]
    /\ UNCHANGED <<ocoVars, mainVars, cacheVars, rq, threshold>>

\* main() just after the window test of line 122, ten seconds before the
\* hour, and a scanner with a cold cache.
InitScan ==
    /\ InitOCO /\ InitCache /\ InitRetry
    /\ now = HOUR_SEC - WINDOW_SEC
    /\ pc = "scan"
    /\ wake = 0
    /\ secs_until_hour = WINDOW_SEC
    /\ passStarts = <<HOUR_SEC>>
    /\ all_filtered = <<>>
    /\ idx = 1
    /\ tick = 0
    /\ po = NoCall
    /\ poReq = <<>>
    /\ failedCands = {}
    /\ topErrors = 0
    /\ interrupted = FALSE
    /\ handlersClosed = FALSE
    /\ threshold \in {ThresholdOf(p) : p \in ThresholdPcts}
    /\ sc = NoScan

InitLib ==
    /\ threshold = ThresholdOf(THRESHOLD_PCT)
    /\ sc = NoScan

NextScan ==
    \/ \E caller \in ScanCallers : ScCall(caller)
    \/ \E r1 \in InfoAnswers, r2 \in FundAnswers, kind \in RefreshErrors :
          ScSymbols(r1, r2, kind)
    \/ \E r1 \in InfoAnswers, r2 \in FundAnswers, kind \in RefreshErrors :
          ScIntervals(r1, r2, kind)
    \/ \E ans \in PremiumAnswers : ScPremium(ans)
    \/ ScLoop
    \/ ScSafeSleepDone
    \/ \E w \in ScanWindows, clock \in ClockValues : ScClassifyUpcoming(w, clock)
    \/ \E w \in ScanWindows, clock \in ClockValues : ScClassifyRecent(w, clock)
    \/ \E ok \in BOOLEAN, t \in TickValues : CandFetch(ok, t)

(***************************************************************************)
(* place_order called on its own, trade_binance.py:125-217, with the       *)
(* arithmetic of _calculate_quantity and _round_price on the answers of    *)
(* the exchange.                                                           *)
(***************************************************************************)

OrderSides == ValidSides \cup {"hold"}
\* usdt_amount: 1 and 100.
OrderAmounts == {1, USDT_AMOUNT}
\* stop_loss_pct 0.1 % and 0.5 %, take_profit_pct 0.2 % and 0.92 %.
StopLossPcts == {1000, STOP_LOSS_PCT}
TakeProfitPcts == {2000, 4200 + TAKE_PROFIT_BUFFER_PCT}
\* Mark prices 50000 and 3; lot steps 0.001, 0.01, 0.5 and 1.
OrderMarks == {50000000, 3000}
OrderSteps == {1, 10, 500, 1000}
\* Ticks 0, 0.001, 0.01, 0.1, 0.25, 0.5 and 1; entry prices 100 and 100.07.
OrderTicks == {0, 1, 10, 100, 250, 500, 1000}
OrderEntries == {100000, 100070}
\* Answers to a poll of the position: an API error, no position, one
\* position of either sign or of amount 0 with an entry price or with 0,
\* and a position that does not resolve followed by two that do.
OrderPositions == {Position(a, e) : a \in {-1, 0, 1}, e \in {0, 100070}}
OrderPollAnswers ==
    {ApiError, PositionList(<<>>)}
    \cup {PositionList(<<x>>) : x \in OrderPositions}
    \cup {PositionList(<<Position(-a, 100000), Position(a, 100000), Position(a, 100070)>>) :
             a \in {-1, 1}}

InitOrder ==
    /\ InitOCO /\ InitCache /\ InitRetry /\ InitLib
    /\ now = StartTs
    /\ pc = "po_prep"
    /\ wake = 0
    /\ secs_until_hour = 0
    /\ passStarts = <<>>
    /\ all_filtered = <<>>
    /\ idx = 1
    /\ tick = 0
    /\ po \in {CallOf(side, usdt, sl, tp) :
                  side \in OrderSides, usdt \in OrderAmounts,
                  sl \in StopLossPcts, tp \in TakeProfitPcts}
    /\ poReq = <<>>
    /\ failedCands = {}
    /\ topErrors = 0
    /\ interrupted = FALSE
    /\ handlersClosed = FALSE

NextOrder ==
    \/ \E ok \in BOOLEAN, t \in OrderTicks, mark \in OrderMarks, step \in OrderSteps :
          PoPrep(ok, t, mark, step)
    \/ \E ok \in BOOLEAN : PoEntry(ok)
    \/ \E ans \in OrderPollAnswers : PoPoll(ans)
    \/ \E outcome \in {"positive", "nonpositive", "raise"}, price \in OrderEntries :
          PoEntryPrice(outcome, price)
    \/ PoCheckPrice
    \/ \E ok \in BOOLEAN : PoStopLoss(ok)
    \/ \E ok \in BOOLEAN : PoTakeProfit(ok)
    \/ PoReturn



(***************************************************************************)
(* Two positions watched side by side while the main thread goes on:       *)
(* _watch_and_cancel runs for the orders 1, 2 and for the orders 3, 4,     *)
(* each in a thread of its own, next to the loop top of main or to a       *)
(* place_order call.                                                       *)
(***************************************************************************)
FleetOrders == {1, 2, 3, 4}
FleetBinding(m) == IF m = "m1" THEN <<1, 2>> ELSE <<3, 4>>

\* The steps of the main thread in this composition: the loop top, and
\* a place_order call that the exchange answers without an error and with
\* the filled position at the first poll.
MainThreadStep ==
    \/ LoopTop
    \/ \E t \in {100}, mark \in MarkPrices, step \in StepSizes : PoPrep(TRUE, t, mark, step)
    \/ PoEntry(TRUE)
    \/ PoPoll(PositionList(<<Position(1, 100070)>>))
    \/ PoCheckPrice
    \/ PoStopLoss(TRUE)
    \/ PoTakeProfit(TRUE)
    \/ PoReturn

InitFleet ==
    /\ orderStatus = [o \in FleetOrders |-> "NEW"]
    /\ mon = [m \in Monitors |->
                 [IdleMonitor EXCEPT !.pc = "query_sl", !.sl_id = FleetBinding(m)[1],
                                     !.tp_id = FleetBinding(m)[2]]]
    /\ cancelLog = <<>>
    /\ InitCache /\ InitRetry /\ InitLib
    /\ now = StartTs
    /\ \/ pc = "top" /\ po = NoCall
       \/ pc = "po_prep" /\ po = CallOf("long", USDT_AMOUNT, STOP_LOSS_PCT,
                                        4200 + TAKE_PROFIT_BUFFER_PCT)
    /\ wake = 0
    /\ secs_until_hour = 0
    /\ passStarts = <<>>
    /\ all_filtered = <<>>
    /\ idx = 1
    /\ tick = 0
    /\ poReq = <<>>
    /\ failedCands = {}
    /\ topErrors = 0
    /\ interrupted = FALSE
    /\ handlersClosed = FALSE

NextFleet ==
    \/ \E o \in FleetOrders : ExchangeFill(o)
    \/ \E m \in Monitors, out \in ApiOutcomes : QuerySL(m, out)
    \/ \E m \in Monitors, out \in ApiOutcomes : QueryTP(m, out)
    \/ \E m \in Monitors, res \in ApiOutcomes : Decide(m, res)
    \/ \E m \in Monitors : SleepDone(m)
    \/ LoopTop
    \/ \E t \in {100}, mark \in MarkPrices, step \in StepSizes : PoPrep(TRUE, t, mark, step)
    \/ PoEntry(TRUE)
    \/ PoPoll(PositionList(<<Position(1, 100070)>>))
    \/ PoCheckPrice
    \/ PoStopLoss(TRUE)
    \/ PoTakeProfit(TRUE)
    \/ PoReturn

(***************************************************************************)
(* The specifications.                                                     *)
(***************************************************************************)
Init == InitOCO /\ InitMain /\ InitCache /\ InitRetry /\ InitLib

SpecOCO   == Init /\ [][NextOCO]_vars
SpecOCOLive == Init /\ [][NextOCO]_vars /\ FairOCO
SpecMain  == Init /\ [][NextMain]_vars
SpecCache == Init /\ [][NextCache]_vars
SpecRetry == Init /\ [][NextRetry]_vars
SpecScan  == InitScan /\ [][NextScan]_vars
SpecOrder == InitOrder /\ [][NextOrder]_vars
SpecFleet == InitFleet /\ [][NextFleet]_vars

(***************************************************************************)
(* Properties of the OCO monitor, under SpecOCO.                           *)
(***************************************************************************)
CancelsIn(log, m) == SelectSeq(log, LAMBDA r : r.mon = m)
CancelsBy(m)      == CancelsIn(cancelLog, m)

BothBound(m) == mon[m].sl_id # NoId /\ mon[m].tp_id # NoId

\* A poll of a monitor bound to two orders has seen exactly one of them FILLED.
OneLegFilled(m) ==
    /\ mon[m].pc = "decide"
    /\ BothBound(m)
    /\ (mon[m].sl_status = "FILLED") # (mon[m].tp_status = "FILLED")

OtherLeg(m) == IF mon[m].sl_status = "FILLED" THEN mon[m].tp_id ELSE mon[m].sl_id

\* C1: when a poll of a monitor bound to a stop-loss and a take-profit order
\* sees exactly one of them FILLED, the monitor's next step issues its one
\* and only cancel request, for the other order's id, and reaches Done
\* whatever the answer to that request (ok, -2011, another API error); from
\* Done it neither polls nor cancels again.
C1_OneLegFilledCancelsOther ==
    [][\A m \in Monitors :
         /\ (OneLegFilled(m) /\ mon'[m] # mon[m]) =>
               /\ mon'[m].pc = "Done"
               /\ CancelsBy(m) = <<>>
               /\ Len(CancelsIn(cancelLog', m)) = 1
               /\ CancelsIn(cancelLog', m)[1].orderId = OtherLeg(m)
         /\ mon[m].pc = "Done" =>
               /\ mon'[m] = mon[m]
               /\ CancelsIn(cancelLog', m) = CancelsBy(m)]_vars

\* C1's case: a monitor that saw one leg FILLED and the other not is Done
\* after a cancel request that was answered -2011.
C1_Witness ==
    \E m \in Monitors :
        /\ mon[m].pc = "Done"
        /\ BothBound(m)
        /\ (mon[m].sl_status = "FILLED") # (mon[m].tp_status = "FILLED")
        /\ Len(CancelsBy(m)) = 1
        /\ CancelsBy(m)[1].res = "err_2011"
        /\ CancelsBy(m)[1].orderId = OtherLeg(m)

\* C2: whatever the statuses and API errors observed, a monitor issues at
\* most one cancel request in all, so at most one of its two orders ever
\* receives one.
C2_AtMostOneCancel ==
    \A m \in Monitors : Len(CancelsBy(m)) <= 1

\* C2's case: both legs were seen FILLED in the same poll and the monitor
\* is Done after a single cancel request.
C2_Witness ==
    \E m \in Monitors :
        /\ mon[m].pc = "Done"
        /\ mon[m].sl_status = "FILLED"
        /\ mon[m].tp_status = "FILLED"
        /\ Len(CancelsBy(m)) = 1

(***************************************************************************)
(* Properties of place_order and of the main loop, under SpecMain.         *)
(***************************************************************************)
\* C3: whenever place_order has returned with both the stop-loss and the
\* take-profit order placed, a monitor bound to exactly those two order ids
\* has been started.
C3_MonitorStartedForProtectedPosition ==
    (po.result = "returned" /\ po.sl_id # NoId /\ po.tp_id # NoId) =>
        \E m \in Monitors :
            /\ mon[m].pc # "idle"
            /\ mon[m].sl_id = po.sl_id
            /\ mon[m].tp_id = po.tp_id

\* C4: no hour boundary has more than one pass started for it.
C4_OnePassPerBoundary ==
    \A i, j \in DOMAIN passStarts : i # j => passStarts[i] # passStarts[j]

\* C5: once a pass in which some candidate's handling failed is over, every
\* candidate of its scan result has been gone through and the loop is in,
\* or beyond, the sleep past the boundary.
C5_CandidateFailureIsolated ==
    (failedCands # {} /\ pc \notin passPcs /\ ~interrupted) =>
        /\ idx > Len(all_filtered)
        /\ pc \in {"pass_sleep", "top", "poll_sleep"}

\* C6: an exception that reaches the top of a loop iteration puts the loop
\* into a back-off that ends 5 seconds later; the back-off ends, unless
\* interrupted, only once those 5 seconds have passed and then at the top
\* of the next iteration; and the loop ends only by an interrupt.
C6_ExceptionBacksOffAndResumes ==
    [][/\ topErrors' # topErrors =>
             (pc' = "backoff" /\ wake' = now + BACKOFF_SEC)
       /\ (pc = "backoff" /\ pc' # "backoff" /\ ~interrupted') =>
             (pc' = "top" /\ now >= wake)
       /\ pc' \in {"exited", "crashed"} => interrupted']_vars

\* C6's case: an exception was caught at the top level, the back-off is
\* over and the loop has gone on to a new pass.
C6_Witness ==
    /\ topErrors >= 1
    /\ pc = "scan"
    /\ ~interrupted
    /\ now >= wake

\* C7: after an interrupt the loop has exited through the handler that
\* closes the log handlers.
C7_InterruptExitsCleanly ==
    interrupted => (pc = "exited" /\ handlersClosed)

ProtectiveOrder(r) ==
    r.op = "create" /\ r.type \in {"STOP_MARKET", "LIMIT"} /\ r.reduceOnly

NoRollbackState ==
    (po.result = "raised" /\ poReq # <<>>) =>
        /\ po.failedAt \in {"price", "sl", "tp"}
        /\ poReq[1].op = "create" /\ poReq[1].type = "MARKET"
        /\ poReq[1].side = EntrySide(po.side) /\ ~poReq[1].reduceOnly
        /\ \A i \in 2..Len(poReq) : ProtectiveOrder(poReq[i])
        /\ po.failedAt \in {"price", "sl"} => (Len(poReq) = 1 /\ po.sl_id = NoId)
        /\ po.failedAt = "tp" =>
              /\ Len(poReq) = 2
              /\ poReq[2].type = "STOP_MARKET"
              /\ po.sl_id = poReq[2].orderId
        /\ po.tp_id = NoId

\* C8: when place_order has raised after its entry order was accepted, it
\* failed at the entry price, the stop-loss or the take-profit; the entry
\* order is followed by nothing but the protective orders placed before the
\* failure (no cancel, no closing order): none when the entry price or the
\* stop-loss failed, the stop-loss alone when the take-profit failed. The
\* step that raises submits nothing, and the caller in main.py gets the
\* exception: it records the candidate as failed and goes on to the next.
C8_NoRollback ==
    /\ []NoRollbackState
    /\ [][(po.result = "running" /\ po'.result = "raised") =>
             /\ poReq' = poReq
             /\ pc' = "cand"
             /\ failedCands' = failedCands \cup {idx}
             /\ idx' = idx + 1]_vars

\* C8's case: the take-profit order was rejected after the entry and the
\* stop-loss order had been accepted.
C8_Witness ==
    /\ po.result = "raised"
    /\ po.failedAt = "tp"
    /\ Len(poReq) = 2
    /\ ~RoundPriceRaises(po.tick)

(***************************************************************************)
(* Properties of the exchange-info cache, under SpecCache.                 *)
(***************************************************************************)
IsCall == calls' = calls + 1

C10_FailedRefreshKeepsCache ==
    [][(IsCall /\ okAt >= 0 /\ lastCall'.raised) =>
          /\ cached_symbols' = cached_symbols
          /\ cached_intervals' = cached_intervals
          /\ last_info_ts' = last_info_ts]_vars

\* C11 as stated: once a refresh has completed, a symbols() call made while
\* less than the TTL has passed since it does not return an empty set; and
\* while no refresh has ever completed, a call raises.
C11_NoYoungEmptySet ==
    [][IsCall =>
          /\ (okAt >= 0 /\ lastCall'.kind = "symbols" /\ now' - okAt < CACHE_TTL) =>
                (lastCall'.raised \/ lastCall'.ret # {})
          /\ okAt' = -1 => lastCall'.raised]_vars

\* C11, amended: once a refresh has completed, a symbols() call made while
\* less than the TTL has passed since it never serves an empty set from the
\* cache: it returns an empty set only when the call itself made both
\* requests and the exchangeInfo answer held no PERPETUAL symbol; and while
\* no refresh has ever completed, every symbols()/intervals() call raises
\* instead of returning a value.
C11_NoEmptySetFromCache ==
    [][IsCall =>
          /\ (okAt >= 0 /\ lastCall'.kind = "symbols" /\ now' - okAt < CACHE_TTL
                 /\ ~lastCall'.raised /\ lastCall'.ret = {}) =>
                (lastCall'.info = 1 /\ lastCall'.fund = 1 /\ okSyms' = {} /\ okAt' = now')
          /\ okAt' = -1 => lastCall'.raised]_vars

\* C11's case: a symbols() call one second short of the TTL after a
\* completed refresh was answered from the cache, with a non-empty set.
C11_Witness ==
    /\ calls >= 2
    /\ okAt >= 0
    /\ now - okAt = CACHE_TTL - 1
    /\ lastCall.kind = "symbols"
    /\ lastCall.info = 0
    /\ ~lastCall.raised
    /\ lastCall.ret = okSyms
    /\ lastCall.ret # {}

(***************************************************************************)
(* Properties of _request_with_retries, under SpecRetry.                   *)
(***************************************************************************)
Attempts == Len(rq.outcomes)

\* C12: a call makes at most max_retries attempts; it returns exactly when
\* an attempt succeeds, all attempts before that one having failed with a
\* connection error or a timeout, and makes no attempt after it; the wait
\* after a transient failure of attempt k is 2k seconds, and attempt k + 1
\* is made only after that wait; the call raises a connection error of its
\* own exactly after max_retries attempts that all failed transiently; and
\* an attempt answered with an HTTP error status is the last one, the call
\* raising that error.
C12_RetryPolicyState ==
    /\ Attempts <= rq.max_retries
    /\ \A k \in 1..(Attempts - 1) : rq.outcomes[k] \in Transient
    /\ rq.pc = "returned" <=> (Attempts >= 1 /\ rq.outcomes[Attempts] = "ok")
    /\ \A k \in 1..Len(rq.waits) :
          rq.waits[k] = 2 * k /\ rq.outcomes[k] \in Transient
    /\ Len(rq.waits) = Cardinality({k \in 1..Attempts : rq.outcomes[k] \in Transient})
    /\ (rq.pc = "raised" /\ rq.error = "ConnectionError"
          /\ (Attempts = 0 \/ rq.outcomes[Attempts] \in Transient))
          => Attempts = rq.max_retries
    /\ (Attempts >= 1 /\ rq.outcomes[Attempts] = "HTTPError")
          => (rq.pc = "raised" /\ rq.error = "HTTPError")

C12_RetryPolicy ==
    /\ []C12_RetryPolicyState
    /\ [][/\ rq.pc \in {"returned", "raised"} => rq' = rq
          /\ Len(rq'.outcomes) > Attempts =>
                (Len(rq'.outcomes) = Attempts + 1 /\ Len(rq.waits) = Attempts)
          /\ (rq.pc = "loop" /\ Attempts = rq.max_retries /\ rq' # rq) =>
                (rq'.pc = "raised" /\ rq'.error = "ConnectionError"
                 /\ rq'.outcomes = rq.outcomes)]_vars

\* C12's case: two transient failures, waited 2 s and 4 s for, and a third
\* attempt that succeeded.
C12_Witness ==
    /\ rq.pc = "returned"
    /\ rq.max_retries = DEFAULT_MAX_RETRIES
    /\ rq.outcomes = <<"Timeout", "ConnectionError", "ok">>
    /\ rq.waits = <<2, 4>>

(***************************************************************************)
(* Properties of scan() and its callers, under SpecScan.                   *)
(***************************************************************************)
\* The loop of scan() has run to its return.
ScanLoopReturned == sc.pc = "loop" /\ sc'.pc # "loop" /\ sc'.raised = "none"

\* The rate an entry states: its primary field, or the secondary one when
\* the primary is missing.
StatedRate(e) == IF e.last.k \in {"absent", "null"} THEN e.fund ELSE e.last

HasRate(e) == StatedRate(e).k = "num"

\* The record the claims expect for an entry.
ExpectedRecord(e) ==
    [symbol |-> e.symbol, rate_pct |-> 100 * StatedRate(e).v,
     next_funding |-> e.next.v,
     interval_h |-> IF \E q \in sc.intervals : q[1] = e.symbol
                    THEN (CHOOSE q \in sc.intervals : q[1] = e.symbol)[2]
                    ELSE 8]

\* The positions of a sequence whose element satisfies Test, and the k-th
\* of them.
Positions(seq, Test(_)) == {i \in 1..Len(seq) : Test(seq[i])}
KthPosition(seq, Test(_), k) ==
    CHOOSE i \in Positions(seq, Test) :
        Cardinality({j \in Positions(seq, Test) : j <= i}) = k

\* out holds, in order, exactly what Image makes of the elements of seq
\* that satisfy Test.
IsFilteredImage(out, seq, Test(_), Image(_)) ==
    /\ Len(out) = Cardinality(Positions(seq, Test))
    /\ \A k \in 1..Len(out) : out[k] = Image(seq[KthPosition(seq, Test, k)])

OverThreshold(e) ==
    /\ e.symbol \in sc.symbols
    /\ HasRate(e)
    /\ Abs(StatedRate(e).v) * 100 >= threshold * 100

\* The record of an entry that satisfies Test is in the result no more
\* often than such entries occur.
EmittedOnce(results, premium, Test(_)) ==
    \A p \in Positions(premium, Test) :
        Cardinality({j \in 1..Len(results) : results[j] = ExpectedRecord(premium[p])})
          <= Cardinality({j \in Positions(premium, Test) :
                             ExpectedRecord(premium[j]) = ExpectedRecord(premium[p])})

Fundable(e) == OverThreshold(e) /\ e.next.k = "num"

Defaulted(e) == StatedRate(e).k = "absent" \/ e.next.k \in {"absent", "null"}

\* C14: no record of the result of scan() is built from an entry that lacks
\* both rate fields or the next funding time: every record of the result is
\* the record of an entry that states a rate and a funding time.
C14_NoDefaultedRecord ==
    [][ScanLoopReturned =>
          \A i \in 1..Len(sc'.results) :
              \E j \in 1..Len(sc.premium) :
                  /\ ~Defaulted(sc.premium[j])
                  /\ sc'.results[i] = ExpectedRecord(sc.premium[j])]_vars

Malformed(e) == StatedRate(e).k = "bad" \/ e.next.k = "bad"

\* C15: scan() does not raise out of its loop over the entries, and with
\* an entry whose rate or funding time does not parse its result is the
\* result for the same list without that entry.
C15_MalformedRecordIsolated ==
    [][(sc.pc = "loop" /\ sc'.pc # "loop") =>
          /\ sc'.raised = "none"
          /\ sc'.results =
                ScanLoop(SelectSeq(sc.premium, LAMBDA e : ~Malformed(e)),
                         sc.symbols, sc.intervals, threshold).results]_vars

\* The premiumIndex request of a scan() has failed.
PremiumFetchFailed == sc.pc = "loop_wait" /\ sc'.pc \notin {"loop_wait", "loop"}

\* C16: when the premiumIndex request fails, scan() returns the empty list
\* without raising and leaves the cache as it was; safe_scan hands the
\* empty list to the pass, whose loop over the candidates then goes
\* straight to the sleep past the hour boundary, no order submitted.
C16_FailedFetchGivesNoCandidates ==
    [][/\ PremiumFetchFailed =>
             /\ sc'.raised = "none" /\ sc'.results = <<>> /\ sc'.premiumFailed
             /\ cacheVars' = cacheVars
             /\ sc.caller = "safe_scan" =>
                   /\ sc'.pc = "done" /\ sc'.ret = <<>>
                   /\ all_filtered' = <<>> /\ idx' = 1 /\ pc' = "cand"
                   /\ poReq' = poReq /\ topErrors' = topErrors
       /\ (sc.premiumFailed /\ sc.caller = "safe_scan" /\ pc = "cand" /\ pc' # pc) =>
             /\ pc' = "pass_sleep"
             /\ wake' = now + secs_until_hour + 1
             /\ poReq' = <<>> /\ topErrors' = 0 /\ failedCands' = {}]_vars

\* C16's case: the premiumIndex request of safe_scan's scan failed after
\* the cache had been filled, and the pass is in its sleep past the hour.
C16_Witness ==
    /\ sc.caller = "safe_scan"
    /\ sc.premiumFailed
    /\ sc.symbols # {}
    /\ cached_symbols.some
    /\ pc = "pass_sleep"
    /\ all_filtered = <<>>
    /\ poReq = <<>>

\* The test of get_upcoming_pairs and of get_recent_pairs, as claimed.
InUpcomingWindow(r) ==
    /\ 0 <= r.next_funding - sc.clock
    /\ r.next_funding - sc.clock <= 1000 * sc.w
InRecentWindow(r) ==
    /\ 0 <= sc.clock - (r.next_funding - 3600000 * r.interval_h)
    /\ sc.clock - (r.next_funding - 3600000 * r.interval_h) <= 1000 * sc.w
SymbolRatePair(r) == <<r.symbol, r.rate_pct>>

\* C17: get_upcoming_pairs(w) returns, in scan order, exactly the (symbol,
\* rate_pct) pairs of the scan() records whose funding time is between 0
\* and w seconds ahead of the clock, and get_recent_pairs(w) exactly those
\* whose funding time less the interval is between 0 and w seconds behind
\* it, both edges included.
C17_WindowClassification ==
    /\ (sc.pc = "done" /\ sc.method = "upcoming") =>
          IsFilteredImage(sc.ret, sc.results, InUpcomingWindow, SymbolRatePair)
    /\ (sc.pc = "done" /\ sc.method = "recent") =>
          IsFilteredImage(sc.ret, sc.results, InRecentWindow, SymbolRatePair)

\* C17's case: of two records get_upcoming_pairs(10) returned the one whose
\* funding time is exactly 10 s ahead, and not the other, four hours later.
C17_Witness ==
    /\ sc.pc = "done"
    /\ sc.method = "upcoming"
    /\ sc.w = 10
    /\ Len(sc.results) = 2
    /\ sc.results[2].next_funding - sc.clock = 10000
    /\ sc.results[1].next_funding - sc.clock > 10000
    /\ sc.ret = <<(<<sc.results[2].symbol, sc.results[2].rate_pct>>)>>

(***************************************************************************)
(* Properties of the order arithmetic, under SpecOrder.                    *)
(***************************************************************************)

\* place_order got past its fetches: the quantity was computed or refused.
QuantityComputed == po.step # 0
QuantityRefused == po.result = "raised" /\ po.failedAt = "prep" /\ po.step # 0

\* q is usdt / price truncated toward zero at the decimals of step: a
\* whole multiple of 10^-precision, not above usdt / price and less than
\* one such unit below it. usdt * 1000000 \div price is the whole number
\* of thousandths in usdt / price.
IsTruncation(q, usdt, price, step) ==
    LET unit == Pow10(3 - Precision(step))
        whole == (usdt * 1000000) \div price
    IN  /\ q % unit = 0
        /\ q <= whole
        /\ whole < q + unit

StopLossPlaced == po.sl_id # NoId
TakeProfitPlaced == po.tp_id # NoId

\* A price in units of 0.001 on the scale of the raw prices.
AsRaw(price) == price * 10000

\* price is raw rounded down, or up, onto the grid of tick, less than one
\* tick away from raw.
IsRoundedDown(price, raw, t) ==
    /\ price % t = 0
    /\ AsRaw(price) <= raw
    /\ raw - AsRaw(price) < AsRaw(t)
IsRoundedUp(price, raw, t) ==
    /\ price % t = 0
    /\ AsRaw(price) >= raw
    /\ AsRaw(price) - raw < AsRaw(t)

\* C19: for a long position the stop-loss trigger is entry * (1 - slPct /
\* 100) rounded down and the take-profit limit entry * (1 + tpPct / 100)
\* rounded up, for a short position the stop-loss is entry * (1 + slPct /
\* 100) rounded up and the take profit entry * (1 - tpPct / 100) rounded
\* down; each rounded price is on the tick grid and less than one tick
\* from the raw price (entry 100, tick 0.1, slPct 0.1, tpPct 0.2, long:
\* stop 99.9, take profit 100.2); a positive funding rate trades long.
C19_ProtectiveRounding ==
    LET below(pct) == po.entry_price * 10000 - po.entry_price * (pct \div 100)
        above(pct) == po.entry_price * 10000 + po.entry_price * (pct \div 100)
    IN  /\ StopLossPlaced =>
              /\ poReq[po.sl_id].type = "STOP_MARKET"
              /\ poReq[po.sl_id].price = po.sl_price
              /\ po.side = "long" =>
                    IsRoundedDown(po.sl_price, below(po.stop_loss_pct), po.tick)
              /\ po.side = "short" =>
                    IsRoundedUp(po.sl_price, above(po.stop_loss_pct), po.tick)
              /\ (po.side = "long" /\ po.entry_price = 100000 /\ po.tick = 100
                     /\ po.stop_loss_pct = 1000) => po.sl_price = 99900
        /\ TakeProfitPlaced =>
              /\ poReq[po.tp_id].type = "LIMIT"
              /\ poReq[po.tp_id].price = po.tp_price
              /\ po.side = "long" =>
                    IsRoundedUp(po.tp_price, above(po.take_profit_pct), po.tick)
              /\ po.side = "short" =>
                    IsRoundedDown(po.tp_price, below(po.take_profit_pct), po.tick)
              /\ (po.side = "long" /\ po.entry_price = 100000 /\ po.tick = 100
                     /\ po.take_profit_pct = 2000) => po.tp_price = 100200
        /\ \A r \in RatePcts : r > 0 => Direction(r) = "long"

\* C20: for both sides the rounded stop-loss trigger is never further from
\* the entry price than the unrounded trigger, and the rounded take-profit
\* limit never further from the entry price than the unrounded limit.
C20_RoundingTowardSafety ==
    /\ StopLossPlaced =>
          Abs(AsRaw(po.sl_price) - AsRaw(po.entry_price))
              <= Abs(po.raw_sl - AsRaw(po.entry_price))
    /\ TakeProfitPlaced =>
          Abs(AsRaw(po.tp_price) - AsRaw(po.entry_price))
              <= Abs(po.raw_tp - AsRaw(po.entry_price))

(***************************************************************************)
(* Properties of the entry price and of the order sequence, under          *)
(* SpecOrder.                                                              *)
(***************************************************************************)
\* Positions of answer ans whose amount has the sign of the side of the
\* call and whose entry price is positive.
Resolving(ans) ==
    IF ans.kind # "ok" THEN {}
    ELSE {i \in DOMAIN ans.positions :
             /\ \/ po.side = "long" /\ ans.positions[i].amt > 0
                \/ po.side = "short" /\ ans.positions[i].amt < 0
             /\ ans.positions[i].entryPrice > 0}

C21_EntryPriceState ==
    /\ po.attempts <= MAX_ATTEMPTS
    /\ (pc = "po_check" /\ po.price_src = "position") => po.entry_price > 0
    /\ (pc = "po_check" /\ po.price_src = "mark") => po.attempts = MAX_ATTEMPTS

\* C21: _fetch_entry_price polls the position at most max_attempts (5)
\* times and returns the entry price of the first position observed whose
\* amount has the sign of the side and whose entry price is positive; an
\* opposite sign, a zero amount, an entry price <= 0 or an API error on a
\* poll goes on to the next poll; when no poll resolved, the mark price the
\* exchange answers is returned; and place_order fails on the returned
\* price exactly when it is <= 0.
C21_EntryPriceResolution ==
    /\ []C21_EntryPriceState
    /\ [][/\ (pc = "po_price" /\ po'.attempts # po.attempts) =>
                /\ po.attempts < MAX_ATTEMPTS
                /\ po'.attempts = po.attempts + 1
                /\ LET ans == po'.last_poll
                   IN  IF Resolving(ans) # {}
                       THEN /\ pc' = "po_check"
                            /\ po'.price_src = "position"
                            /\ \E i \in Resolving(ans) :
                                  /\ \A j \in Resolving(ans) : i <= j
                                  /\ po'.entry_price = ans.positions[i].entryPrice
                       ELSE /\ pc' = "po_price"
                            /\ po'.result = "running"
                            /\ po'.entry_price = po.entry_price
                            /\ po'.price_src = "none"
          /\ (pc = "po_price" /\ po'.attempts = po.attempts /\ po' # po) =>
                /\ po.attempts = MAX_ATTEMPTS
                /\ Resolving(po.last_poll) = {}
                /\ pc' = "po_check" => po'.price_src = "mark"
          /\ (pc = "po_check" /\ pc' # "po_check") =>
                (po'.result = "raised" <=> po.entry_price <= 0)]_vars

\* C21's case: two polls that showed no position of the side, a third one
\* that shows a short position and two long ones, and the entry price of
\* the first long one returned.
C21_Witness ==
    /\ pc = "po_check"
    /\ po.side = "long"
    /\ po.attempts = 3
    /\ po.last_poll = PositionList(<<Position(-1, 100000), Position(1, 100000),
                                     Position(1, 100070)>>)
    /\ po.entry_price = 100000
    /\ po.price_src = "position"

\* C26: no order is submitted unless the direction is valid and the mark
\* price, the step size, a quantity > 0 and the tick size were obtained (a
\* failure of any of them submits nothing); the MARKET entry order comes
\* first; protective orders come only after a positive entry price, the
\* stop-loss before the take-profit; both are reduce-only, on the side
\* opposite to the entry, with exactly the entry quantity.
C26_OrderSequencing ==
    /\ poReq # <<>> =>
          /\ po.side \in {"long", "short"}
          /\ po.mark > 0 /\ po.step > 0 /\ po.qty > 0
          /\ pc \notin {"po_prep", "po_entry"}
          /\ poReq[1].type = "MARKET"
          /\ poReq[1].side = (IF po.side = "long" THEN "BUY" ELSE "SELL")
          /\ ~poReq[1].reduceOnly
          /\ poReq[1].quantity = po.qty
    /\ (po.result = "raised" /\ po.failedAt = "prep") => poReq = <<>>
    /\ Len(poReq) <= 3
    /\ Len(poReq) >= 2 =>
          /\ po.entry_price > 0
          /\ poReq[2].type = "STOP_MARKET"
    /\ Len(poReq) >= 3 => poReq[3].type = "LIMIT"
    /\ \A i \in 2..Len(poReq) :
          /\ poReq[i].reduceOnly
          /\ poReq[i].side \in {"BUY", "SELL"} \ {poReq[1].side}
          /\ poReq[i].quantity = poReq[1].quantity

\* C26's case: a short was opened by a SELL at market and protected by a
\* BUY stop-loss and then a BUY take-profit of the same quantity.
C26_Witness ==
    /\ po.result = "returned"
    /\ po.side = "short"
    /\ Len(poReq) = 3
    /\ poReq[1].type = "MARKET" /\ poReq[1].side = "SELL"
    /\ poReq[2].type = "STOP_MARKET" /\ poReq[2].side = "BUY"
    /\ poReq[3].type = "LIMIT" /\ poReq[3].side = "BUY"
    /\ poReq[3].quantity = poReq[1].quantity

(***************************************************************************)
(* Further properties of the OCO monitor, under SpecOCO and SpecOCOLive.   *)
(***************************************************************************)
SawFill(m) == mon[m].sl_status = "FILLED" \/ mon[m].tp_status = "FILLED"

\* A running monitor bound to two orders of which one is FILLED on the
\* exchange, where it stays.
LegFilled(m) ==
    /\ mon[m].pc \notin {"idle", "Done"}
    /\ BothBound(m)
    /\ orderStatus[mon[m].sl_id] = "FILLED" \/ orderStatus[mon[m].tp_id] = "FILLED"

\* C22: a monitor is Done only after a poll that saw a leg FILLED; a poll
\* that saw neither leg FILLED (NEW, CANCELED, EXPIRED, not found, a query
\* error) is followed by the sleep and the next poll, without a cancel
\* request; and a monitor one of whose legs is FILLED, with status queries
\* that get answered, eventually is Done.
C22_NoTimeoutAndLiveness ==
    /\ [](\A m \in Monitors :
             /\ mon[m].pc = "Done" => SawFill(m)
             /\ CancelsBy(m) # <<>> => mon[m].pc = "Done")
    /\ [][\A m \in Monitors :
             /\ (mon[m].pc = "decide" /\ ~SawFill(m) /\ mon'[m] # mon[m]) =>
                   (mon'[m].pc = "sleep" /\ CancelsIn(cancelLog', m) = <<>>)
             /\ (mon[m].pc = "sleep" /\ mon'[m] # mon[m]) =>
                   (mon'[m].pc = "query_sl" /\ CancelsIn(cancelLog', m) = <<>>)]_vars
    /\ \A m \in Monitors : LegFilled(m) ~> (mon[m].pc = "Done")

\* C22's case: a monitor is Done after a poll in which the stop-loss query
\* failed and the take-profit order was seen FILLED.
C22_Witness ==
    \E m \in Monitors :
        /\ mon[m].pc = "Done"
        /\ BothBound(m)
        /\ mon[m].sl_status = "None"
        /\ mon[m].tp_status = "FILLED"
        /\ orderStatus[mon[m].tp_id] = "FILLED"
        /\ Len(CancelsBy(m)) = 1

\* The requests of monitor m that the step under way appends to the log.
NewCancels(m) == SubSeq(CancelsIn(cancelLog', m), Len(CancelsBy(m)) + 1,
                        Len(CancelsIn(cancelLog', m)))

\* C23: a -2011 answer to the status query of one leg does not end the
\* monitor and brings no cancel request with it: after the stop-loss
\* query the take-profit query of the same poll follows, after the
\* take-profit query the decision of the same poll; and when the other
\* leg was seen FILLED in that poll, the decision of that poll cancels the
\* leg that was not found and ends the monitor; otherwise the monitor
\* sleeps and polls again.
C23_NotFoundIsNotFatal ==
    [][\A m \in Monitors :
         /\ (mon[m].pc = "query_sl" /\ mon'[m] # mon[m]
               /\ mon'[m].sl_err = "err_2011") =>
               (mon'[m].pc = "query_tp" /\ NewCancels(m) = <<>>)
         /\ (mon[m].pc = "query_tp" /\ mon'[m] # mon[m]
               /\ mon'[m].tp_err = "err_2011") =>
               (mon'[m].pc = "decide" /\ NewCancels(m) = <<>>)
         /\ (mon[m].pc = "decide" /\ mon'[m] # mon[m] /\ BothBound(m)
               /\ mon[m].sl_err = "err_2011") =>
               IF mon[m].tp_status = "FILLED"
               THEN /\ mon'[m].pc = "Done"
                    /\ Len(NewCancels(m)) = 1
                    /\ NewCancels(m)[1].orderId = mon[m].sl_id
               ELSE mon'[m].pc = "sleep" /\ NewCancels(m) = <<>>
         /\ (mon[m].pc = "decide" /\ mon'[m] # mon[m] /\ BothBound(m)
               /\ mon[m].tp_err = "err_2011") =>
               IF mon[m].sl_status = "FILLED"
               THEN /\ mon'[m].pc = "Done"
                    /\ Len(NewCancels(m)) = 1
                    /\ NewCancels(m)[1].orderId = mon[m].tp_id
               ELSE mon'[m].pc = "sleep" /\ NewCancels(m) = <<>>]_vars

\* C23's case: in one poll the stop-loss query was answered -2011, the
\* take-profit order was seen FILLED, and the monitor is Done after
\* its cancel request for the stop-loss order.
C23_Witness ==
    \E m \in Monitors :
        /\ mon[m].pc = "Done"
        /\ mon[m].sl_err = "err_2011"
        /\ mon[m].tp_status = "FILLED"
        /\ Len(CancelsBy(m)) = 1
        /\ CancelsBy(m)[1].orderId = mon[m].sl_id

\* A poll of a monitor bound to two orders has seen both of them FILLED.
BothLegsFilled(m) ==
    /\ BothBound(m)
    /\ mon[m].sl_status = "FILLED"
    /\ mon[m].tp_status = "FILLED"

\* C24: when one poll sees both the stop-loss and the take-profit order
\* FILLED, the stop-loss wins: the monitor's next step issues one cancel
\* request, for the take-profit order, and ends the monitor; it has issued
\* and issues no request for the stop-loss order, and from Done it does
\* nothing more about the double fill.
C24_BothFilledStopLossWins ==
    /\ [](\A m \in Monitors :
             (mon[m].pc = "Done" /\ BothLegsFilled(m)) =>
                 /\ Len(CancelsBy(m)) = 1
                 /\ CancelsBy(m)[1].orderId = mon[m].tp_id
                 /\ orderStatus[mon[m].sl_id] = "FILLED"
                 /\ orderStatus[mon[m].tp_id] = "FILLED")
    /\ [][\A m \in Monitors :
             /\ (mon[m].pc = "decide" /\ BothLegsFilled(m) /\ mon'[m] # mon[m]) =>
                   /\ mon'[m].pc = "Done"
                   /\ CancelsBy(m) = <<>>
                   /\ Len(NewCancels(m)) = 1
                   /\ NewCancels(m)[1].orderId = mon[m].tp_id
                   /\ orderStatus' = orderStatus
             /\ (mon[m].pc = "Done" /\ BothLegsFilled(m)) =>
                   (mon'[m] = mon[m] /\ NewCancels(m) = <<>>)]_vars

\* C24's case: both orders are FILLED on the exchange, the monitor saw
\* both in one poll and is Done after a cancel request for the take-profit
\* order that the exchange answered with -2011.
C24_Witness ==
    \E m \in Monitors :
        /\ mon[m].pc = "Done"
        /\ BothLegsFilled(m)
        /\ orderStatus[mon[m].sl_id] = "FILLED"
        /\ orderStatus[mon[m].tp_id] = "FILLED"
        /\ CancelsBy(m) = <<[mon |-> m, orderId |-> mon[m].tp_id, res |-> "err_2011"]>>

(***************************************************************************)
(* Properties of monitors running side by side, under SpecFleet.           *)
(***************************************************************************)
Bound(m) == {mon[m].sl_id, mon[m].tp_id}

\* Positions of the main thread at which it has a next step to take.
MainThreadPcs ==
    {"top", "po_prep", "po_entry", "po_price", "po_check", "po_sl", "po_tp", "po_ret"}

====
